---- MODULE Spec2Model ----
(***************************************************************************)
(* Secrets manager: the value store behind vault.Client, the relational    *)
(* tables secret_metadata / usage_statistics / subscriptions, the wired    *)
(* secret operations (handlers.SecretsHandler -> vault.Service ->          *)
(* vault.Client) and the catalog / quota operations of SecretsRepository,  *)
(* SecretCountRepository and SubscriptionService.                          *)
(*                                                                         *)
(* Every request runs on its own goroutine; the only shared state is the   *)
(* two backing stores.  One action is one store round trip (one SQL        *)
(* statement or one Vault call) together with the Go code around it.       *)
(*                                                                         *)
(* The HTTP routes reach vault.Service only: CreateSecret, GetSecret and   *)
(* DeleteSecret below are the whole of what a secret request does.  The    *)
(* repository and subscription operations are exported but have no caller  *)
(* in the program; they are driven here by a caller that asks              *)
(* CanCreateSecret first and, when allowed, calls StoreSecret and          *)
(* CreateSecretMetadata, and by a caller of DeleteSecretMetadataByPath.    *)
(*                                                                         *)
(* The KV mount is taken at its contract: Put stores, Get returns the data *)
(* or nothing, Delete removes; a call that fails at the transport level    *)
(* leaves the store as it was.  Timestamps (created_at, updated_at,        *)
(* last_updated) are not modelled.                                         *)
(*                                                                         *)
(* Eleven specifications share the variables:                              *)
(*   Spec         the secret operations above;                             *)
(*   BillingSpec  SubscriptionService (CreateSubscription, UpgradeToPlan), *)
(*                the usage counters of SecretCountRepository and the two  *)
(*                GetSecretsLimit, with a clock for NOW();                 *)
(*   AuthSpec     the auth services (Authenticate, VerifyToken,            *)
(*                RefreshToken), table users and the tokens in             *)
(*                circulation, for each of the services the repository     *)
(*                holds, and the JWTAuth middleware in front of the secret *)
(*                routes;                                                  *)
(*   CounterSpec  the usage counters called one after another;             *)
(*   CatalogSpec  the lookups and the update of SecretsRepository, called  *)
(*                one after another;                                       *)
(*   RoutesSpec   the four secret routes, the listing included, with the   *)
(*                request's context;                                       *)
(*   ClientSpec   NewClient;                                               *)
(*   DeleteSpec   concurrent DeleteSecretMetadataByPath in an organization *)
(*                that holds two secrets;                                  *)
(*   PathSpec     vault.Service called with fields that hold the separator *)
(*                (vault and created are keyed by those fields there);     *)
(*   RegisterSpec concurrent RegisterUser (users holds rows there);        *)
(*   OrgSpec      OrganizationsRepository and the membership calls of      *)
(*                UsersRepository, tables organizations and                *)
(*                user_organizations.                                      *)
(***************************************************************************)
EXTENDS Integers, Sequences, FiniteSets, TLC

(* ------------------------------ bounds -------------------------------- *)
NumWorkers == 2          \* concurrent request goroutines
MaxRequests == 3         \* requests started in one behaviour
MaxFailures == 1         \* transport-level store failures in one behaviour

Workers == 1..NumWorkers

(* --------------------------- input domains ---------------------------- *)
\* strings are sequences of characters, so that path formatting is computed
Orgs == {<<"o">>}
Projects == {<<"p">>}
Envs == {<<"e">>}
Names == {<<"a">>, <<"b">>}
Values == {"v1", "v2"}
Descriptions == {"d1"}
Users == {"u1"}
InputVersions == {0}
SubscriptionLimits == {1}

DefaultSecretsLimit == 5

(* ----------------------- vault.Service helpers ------------------------ *)
\* fmt.Sprintf("%s/%s/%s/%s", orgID, projectID, env, name)
buildSecretPath(orgID, projectID, env, name) ==
    orgID \o <<"/">> \o projectID \o <<"/">> \o env \o <<"/">> \o name

Scopes == Orgs \X Projects \X Envs \X Names

VaultKeys == {buildSecretPath(s[1], s[2], s[3], s[4]) : s \in Scopes}

\* models.Secret with Go zero values in the fields a call leaves unset
Secret(name, value, description, orgID, projectID, env, createdBy, version) ==
    [Name |-> name, Value |-> value, Description |-> description,
     OrganizationID |-> orgID, ProjectID |-> projectID, Environment |-> env,
     CreatedBy |-> createdBy, Version |-> version]

ZeroSecret == Secret(<<>>, "", "", <<>>, <<>>, <<>>, "", 0)

\* the KV entry at a path: absent, or the data map written by StoreSecret
NoData == [present |-> FALSE, value |-> "", description |-> "", created_by |-> ""]

\* data := map{"value", "created_at", "created_by", "description"}
SecretData(secret) ==
    [present |-> TRUE, value |-> secret.Value,
     description |-> secret.Description, created_by |-> secret.CreatedBy]

(* ------------------------------- state -------------------------------- *)
VARIABLES
    vault,              \* Vault KV mount "secret": path -> entry
    secret_metadata,    \* rows of table secret_metadata
    usage_statistics,   \* rows of table usage_statistics
    subscriptions,      \* rows of table subscriptions
    nextId,             \* source of fresh uuid.New() values
    pc,                 \* per worker: the next store call of its request
    loc,                \* per worker: local variables of its request
    last,               \* outcome of the request the last step finished, if any
    created,            \* per path: what the last successful CreateSecret stored, until
                        \* another write touches the path
    started,            \* requests started so far
    failures,           \* transport failures so far
    now,                \* the clock read by NOW() and time.Now()
    completed,          \* usage-counter calls that have returned nil, per kind
    reference,          \* a counter kept beside secret_count: +1 for each
                        \* IncrementSecretsCount that returned nil, max(0, c - 1)
                        \* for each DecrementSecretsCount that did
    authService,        \* which of the auth services the build links
    users,              \* rows of table users, by id
    issued,             \* the tokens the auth service has signed so far
    refreshed,          \* the tokens RefreshToken has accepted so far
    auth,               \* outcome of the auth call the last step made, if any
    organizations,      \* rows of table organizations
    user_organizations  \* rows of table user_organizations

catalogVars == <<vault, secret_metadata, usage_statistics, subscriptions, nextId,
                 pc, loc, last, created, started, failures>>

billingVars == <<now, completed, reference>>

authVars == <<authService, users, issued, refreshed, auth>>

orgVars == <<organizations, user_organizations>>

vars == <<catalogVars, billingVars, authVars, orgVars>>

stores == <<vault, secret_metadata, usage_statistics, subscriptions>>


(* --------------------------- SQL statements --------------------------- *)
\* SELECT ... FROM secret_metadata WHERE organization_id = ? AND
\* project_id = ? AND environment = ? AND name = ?
RowsAtPath(rows, orgID, projectID, env, name) ==
    {r \in rows : /\ r.organization_id = orgID /\ r.project_id = projectID
                  /\ r.environment = env /\ r.name = name}

RowsOfSecret(rows, secret) ==
    RowsAtPath(rows, secret.OrganizationID, secret.ProjectID,
               secret.Environment, secret.Name)

UsageRows(usage, orgID) == {u \in usage : u.organization_id = orgID}

\* GetSecretsCount: the values QueryRow(...).Scan(&count) can yield; the table
\* has no unique key on organization_id, so several rows may match
GetSecretsCount(usage, orgID) ==
    IF UsageRows(usage, orgID) = {} THEN {0}
    ELSE {u.secret_count : u \in UsageRows(usage, orgID)}

\* SecretCountRepository.GetSecretsLimit: status = 'active' ORDER BY end_date
\* DESC LIMIT 1, and 5 when no row matches
ActiveSubscriptions(subs, orgID) ==
    {s \in subs : s.organization_id = orgID /\ s.status = "active"}

GetSecretsLimit(subs, orgID) ==
    LET active == ActiveSubscriptions(subs, orgID)
    IN  IF active = {} THEN {DefaultSecretsLimit}
        ELSE {s.secrets_limit : s \in
                {t \in active : \A u \in active : u.end_date <= t.end_date}}

\* UPDATE usage_statistics SET secret_count = secret_count + 1 WHERE organization_id = ?
IncrementRows(usage, orgID) ==
    {IF u.organization_id = orgID
        THEN [u EXCEPT !.secret_count = @ + 1] ELSE u : u \in usage}

Greatest(a, b) == IF a >= b THEN a ELSE b

\* a decrement without the floor at 0
DecrementRowsBelowZero(usage, orgID) ==
    {IF u.organization_id = orgID
        THEN [u EXCEPT !.secret_count = @ - 1] ELSE u : u \in usage}

\* UPDATE usage_statistics SET secret_count = GREATEST(0, secret_count - 1) WHERE organization_id = ?
DecrementRows(usage, orgID) ==
    {IF u.organization_id = orgID
        THEN [u EXCEPT !.secret_count = Greatest(0, @ - 1)] ELSE u : u \in usage}

(* ---------------------- observations of a request --------------------- *)
\* what the stores hold for one secret path at one instant
Snapshot(v, rows, usage, secret) ==
    [meta |-> RowsOfSecret(rows, secret) # {},
     data |-> v[buildSecretPath(secret.OrganizationID, secret.ProjectID,
                                secret.Environment, secret.Name)],
     counts |-> GetSecretsCount(usage, secret.OrganizationID)]

NoSnapshot == [meta |-> FALSE, data |-> NoData, counts |-> {0}]

NoCreated == [set |-> FALSE, value |-> "", description |-> ""]

Result(op, secret, status, err, out, calls, pre, post, same, canCreate, expect, alone) ==
    [op |-> op, status |-> status, err |-> err,
     secret |-> out, calls |-> calls, pre |-> pre, post |-> post,
     unchanged |-> same, canCreate |-> canCreate, expect |-> expect,
     alone |-> alone]

NoResult == Result("none", ZeroSecret, "", "", ZeroSecret, <<>>, NoSnapshot,
                   NoSnapshot, TRUE, FALSE, NoCreated, FALSE)

NoLocals == [op |-> "none", secret |-> ZeroSecret, pre |-> NoSnapshot,
             count |-> 0, id |-> 0, calls |-> <<>>, canCreate |-> FALSE]

\* CanCreateSecret evaluated on one state of the tables: count < limit for the
\* values the two SELECTs return
CanCreate(usage, subs, orgID) ==
    \E c \in GetSecretsCount(usage, orgID), l \in GetSecretsLimit(subs, orgID) : c < l

\* no other request is in flight while worker w takes its step
Alone(w) == \A v \in Workers \ {w} : pc[v] = "idle"

\* no request is in flight
AllIdle == \A w \in Workers : pc[w] = "idle"

\* a store call succeeds or fails at the transport level
Outcomes == IF failures < MaxFailures THEN {TRUE, FALSE} ELSE {TRUE}

Fail(ok) == failures' = IF ok THEN failures ELSE failures + 1

KeyOf(secret) ==
    buildSecretPath(secret.OrganizationID, secret.ProjectID,
                    secret.Environment, secret.Name)

(* ------------------------------- Init --------------------------------- *)
InitialSubscriptions ==
    {{}} \cup {{[id |-> 0, organization_id |-> o, status |-> "active",
                 secrets_limit |-> l, end_date |-> 1]} :
               o \in Orgs, l \in SubscriptionLimits}

\* no usage-counter call has returned yet
NoCalls == [IncrementSecretsCount |-> 0, IncrementAPICallCount |-> 0]

\* the auth services of the repository: Service of internal/auth/service.go
\* (the one main constructs), the Service with refresh tokens that is the
\* other version of that file, and ServiceImproved
AuthServices == {"Service", "ServiceWithRefresh", "ServiceImproved"}

UserIDs == {"u1"}

\* the "type" claim of a token; "" when the token carries no such claim
TokenTypes == {"", "access", "refresh"}

\* a token string as jwt.Parse sees it: whether it splits into three decodable
\* segments, whether its HMAC verifies under s.jwtSecret, and its claims
Token(wellformed, signed, sub, type, exp) ==
    [wellformed |-> wellformed, signed |-> signed, sub |-> sub, type |-> type,
     exp |-> exp]

\* a string that is no JWS at all (the empty string)
NoToken == Token(FALSE, FALSE, "", "", 0)

\* an error value: the package's sentinel, or the library's *jwt.ValidationError
\* with its Errors bits
AuthError(name, flags) == [name |-> name, flags |-> flags]

NoError == AuthError("", {})

ErrInvalidToken == AuthError("ErrInvalidToken", {})

ErrTokenExpired == AuthError("ErrTokenExpired", {})

ErrUserNotFound == AuthError("ErrUserNotFound", {})

ErrInvalidCredentials == AuthError("ErrInvalidCredentials", {})

ErrUserExists == AuthError("ErrUserExists", {})

\* TokenResponse{Token, RefreshToken, ExpiresAt}
TokenResponse(token, refreshToken, expiresAt) ==
    [Token |-> token, RefreshToken |-> refreshToken, ExpiresAt |-> expiresAt]

\* the nil *TokenResponse
NoTokenResponse == TokenResponse(NoToken, NoToken, 0)

\* the tokens a response carries
Tokens(response) == {response.Token, response.RefreshToken} \ {NoToken}

\* auth.Credentials as Authenticate sees them: the email, and whether the
\* password is the one the user registered
Credentials(email, matches) == [Email |-> email, Password |-> matches]

NoCredentials == Credentials("", FALSE)

\* what the JWTAuth middleware did with a request: the Authorization header
\* split at its spaces, the status and body it wrote (0: it wrote none), the
\* handler it passed the request to and the "userID" of the request context
Handled(header, status, body, handler, userID) ==
    [header |-> header, status |-> status, body |-> body, handler |-> handler,
     userID |-> userID]

NoRequest == Handled(<<>>, 0, "", "", "")

\* what one auth call was given and what it returned; again: RefreshToken had
\* accepted the same token before
AuthResult(op, token, userID, err, response) ==
    [op |-> op, token |-> token, userID |-> userID, err |-> err,
     minted |-> Tokens(response), response |-> response, creds |-> NoCredentials,
     http |-> NoRequest, again |-> FALSE]

NoAuthResult == AuthResult("none", NoToken, "", NoError, NoTokenResponse)

\* the state after construction, for a build that links the given auth service
Idle(service) ==
    /\ vault = [k \in VaultKeys |-> NoData]
    /\ secret_metadata = {}
    /\ usage_statistics = {}
    /\ subscriptions \in InitialSubscriptions
    /\ nextId = 1
    /\ pc = [w \in Workers |-> "idle"]
    /\ loc = [w \in Workers |-> NoLocals]
    /\ last = NoResult
    /\ created = [k \in VaultKeys |-> NoCreated]
    /\ started = 0
    /\ failures = 0
    /\ now = 0
    /\ completed = NoCalls
    /\ reference = 0
    /\ authService = service
    /\ users = {}
    /\ issued = {}
    /\ refreshed = {}
    /\ auth = NoAuthResult
    /\ organizations = {}
    /\ user_organizations = {}

\* main: authService := auth.NewService(db, cfg.JWT.Secret, cfg.JWT.Expiration)
Init == Idle("Service")

(* ------------- wired secret operations (handlers + vault) ------------- *)
\* the request body decoded by the handler, CreatedBy set from the context
RequestSecrets ==
    {Secret(s[4], v, d, s[1], s[2], s[3], u, ver) :
        s \in Scopes, v \in Values, d \in Descriptions, u \in Users,
        ver \in InputVersions}

\* the mux path variables of GetSecret / DeleteSecret
RequestPaths ==
    {Secret(s[4], "", "", s[1], s[2], s[3], "", 0) : s \in Scopes}

\* Client.WriteSecret: KVv2("secret").Put(ctx, path, data)
WriteSecret(v, path, data) == [v EXCEPT ![path] = data]

\* Client.DeleteSecret: KVv2("secret").Delete(ctx, path)
ClientDeleteSecret(v, path) == [v EXCEPT ![path] = NoData]

\* Service.GetSecret: the models.Secret built from the data map; Version,
\* ID and the timestamps are never assigned
ServiceGetSecret(data, orgID, projectID, env, name) ==
    Secret(name, data.value, data.description, orgID, projectID, env,
           data.created_by, 0)

\* SecretsHandler.CreateSecret -> Service.StoreSecret -> Client.WriteSecret
CreateSecret(w) ==
    /\ pc[w] = "idle"
    /\ started < MaxRequests
    /\ \E secret \in RequestSecrets, ok \in Outcomes :
         LET path == KeyOf(secret)
             pre == Snapshot(vault, secret_metadata, usage_statistics, secret)
             vault2 == IF ok THEN WriteSecret(vault, path, SecretData(secret))
                       ELSE vault
         IN  /\ vault' = vault2
             /\ created' = [created EXCEPT ![path] =
                    IF ok THEN [set |-> TRUE, value |-> secret.Value,
                                description |-> secret.Description]
                    ELSE @]
             /\ last' =
                    Result("CreateSecret", secret,
                           IF ok THEN "Created" ELSE "InternalServerError",
                           IF ok THEN "" ELSE "impossible d'ecrire le secret",
                           ZeroSecret, <<"vault.Put">>, pre,
                           Snapshot(vault2, secret_metadata, usage_statistics, secret),
                           vault2 = vault,
                           CanCreate(usage_statistics, subscriptions,
                                     secret.OrganizationID),
                           NoCreated, Alone(w))
             /\ Fail(ok)
    /\ started' = started + 1
    /\ UNCHANGED <<secret_metadata, usage_statistics, subscriptions, nextId, pc, loc,
                   billingVars, authVars, orgVars>>

\* SecretsHandler.GetSecret -> Service.GetSecret -> Client.GetSecret
GetSecret(w) ==
    /\ pc[w] = "idle"
    /\ started < MaxRequests
    /\ \E secret \in RequestPaths, ok \in Outcomes :
         LET path == KeyOf(secret)
             data == vault[path]
             pre == Snapshot(vault, secret_metadata, usage_statistics, secret)
             err == IF ~ok THEN "impossible de recuperer le secret"
                    ELSE IF ~data.present THEN "secret non trouve"
                    ELSE ""
         IN  /\ last' =
                    Result("GetSecret", secret,
                           IF err = "" THEN "OK" ELSE "NotFound",
                           err,
                           IF err = ""
                             THEN ServiceGetSecret(data, secret.OrganizationID,
                                     secret.ProjectID, secret.Environment, secret.Name)
                             ELSE ZeroSecret,
                           <<"vault.Get">>, pre, pre, TRUE,
                           CanCreate(usage_statistics, subscriptions,
                                     secret.OrganizationID),
                           created[path], Alone(w))
             /\ Fail(ok)
    /\ started' = started + 1
    /\ UNCHANGED <<stores, nextId, pc, loc, created,
                   billingVars, authVars, orgVars>>

\* SecretsHandler.DeleteSecret -> Service.DeleteSecret -> Client.DeleteSecret
DeleteSecret(w) ==
    /\ pc[w] = "idle"
    /\ started < MaxRequests
    /\ \E secret \in RequestPaths, ok \in Outcomes :
         LET path == KeyOf(secret)
             pre == Snapshot(vault, secret_metadata, usage_statistics, secret)
             vault2 == IF ok THEN ClientDeleteSecret(vault, path) ELSE vault
         IN  /\ vault' = vault2
             /\ created' = [created EXCEPT ![path] = NoCreated]
             /\ last' =
                    Result("DeleteSecret", secret,
                           IF ok THEN "NoContent" ELSE "InternalServerError",
                           IF ok THEN "" ELSE "impossible de supprimer le secret",
                           ZeroSecret, <<"vault.Delete">>, pre,
                           Snapshot(vault2, secret_metadata, usage_statistics, secret),
                           vault2 = vault,
                           CanCreate(usage_statistics, subscriptions,
                                     secret.OrganizationID),
                           NoCreated, Alone(w))
             /\ Fail(ok)
    /\ started' = started + 1
    /\ UNCHANGED <<secret_metadata, usage_statistics, subscriptions, nextId, pc, loc,
                   billingVars, authVars, orgVars>>

(* --------- catalog and quota operations issued by a caller ------------ *)
\* the request returns: its outcome is recorded and the worker is free again
Return(w, status, err, call, v, rows, usage) ==
    /\ last' =
          LET post == Snapshot(v, rows, usage, loc[w].secret)
          IN  Result(loc[w].op, loc[w].secret, status, err, ZeroSecret,
                     Append(loc[w].calls, call), loc[w].pre, post,
                     post = loc[w].pre, loc[w].canCreate, NoCreated, Alone(w))
    /\ pc' = [pc EXCEPT ![w] = "idle"]
    /\ loc' = [loc EXCEPT ![w] = NoLocals]

\* the request goes on to its next store call
Goto(w, label, call, locals) ==
    /\ pc' = [pc EXCEPT ![w] = label]
    /\ loc' = [loc EXCEPT ![w] = [locals EXCEPT !.calls = Append(@, call)]]
    /\ last' = NoResult

\* SubscriptionService.CanCreateSecret, first query: s.secretsRepo.GetSecretsCount
\* (a caller that checks the quota before it creates a secret starts here)
CanCreateSecret_GetSecretsCount(w) ==
    /\ pc[w] = "idle"
    /\ started < MaxRequests
    /\ started' = started + 1
    /\ \E secret \in RequestSecrets, ok \in Outcomes :
         LET begun == [NoLocals EXCEPT !.op = "CanCreateSecret", !.secret = secret,
                         !.pre = Snapshot(vault, secret_metadata, usage_statistics, secret)]
         IN  /\ Fail(ok)
             /\ IF ok
                  THEN \E c \in GetSecretsCount(usage_statistics, secret.OrganizationID) :
                         Goto(w, "GetSecretsLimit", "sql.count", [begun EXCEPT !.count = c])
                  ELSE /\ last' =
                             Result("CanCreateSecret", secret, "error", "sql", ZeroSecret,
                                    <<"sql.count">>, begun.pre, begun.pre, TRUE, FALSE,
                                    NoCreated, Alone(w))
                       /\ UNCHANGED <<pc, loc>>
    /\ UNCHANGED <<stores, nextId, created,
                   billingVars, authVars, orgVars>>

\* SubscriptionService.CanCreateSecret, second query and the comparison
\* count < limit; false ends the request with ErrSubscriptionLimitReached
CanCreateSecret_GetSecretsLimit(w) ==
    /\ pc[w] = "GetSecretsLimit"
    /\ \E ok \in Outcomes :
         /\ Fail(ok)
         /\ IF ok
              THEN \E limit \in GetSecretsLimit(subscriptions, loc[w].secret.OrganizationID) :
                     IF loc[w].count < limit
                       THEN Goto(w, "StoreSecret", "sql.limit",
                                 [loc[w] EXCEPT !.canCreate = TRUE])
                       ELSE Return(w, "ErrSubscriptionLimitReached", "", "sql.limit",
                                   vault, secret_metadata, usage_statistics)
              ELSE Return(w, "error", "sql", "sql.limit",
                          vault, secret_metadata, usage_statistics)
    /\ UNCHANGED <<stores, nextId, created, started,
                   billingVars, authVars, orgVars>>

\* Service.StoreSecret called after CanCreateSecret returned true
StoreSecret(w) ==
    /\ pc[w] = "StoreSecret"
    /\ \E ok \in Outcomes :
         LET secret == loc[w].secret
             path == KeyOf(secret)
         IN  /\ Fail(ok)
             /\ IF ok
                  THEN /\ vault' = WriteSecret(vault, path, SecretData(secret))
                       /\ created' = [created EXCEPT ![path] = NoCreated]
                       /\ Goto(w, "CreateSecretMetadata", "vault.Put", loc[w])
                  ELSE /\ UNCHANGED <<vault, created>>
                       /\ Return(w, "error", "impossible d'ecrire le secret", "vault.Put",
                                 vault, secret_metadata, usage_statistics)
    /\ UNCHANGED <<secret_metadata, usage_statistics, subscriptions, nextId, started,
                   billingVars, authVars, orgVars>>

\* the row CreateSecretMetadata inserts: metadata.ID from uuid.New(), the
\* other columns from the caller's metadata (models.SecretData.ToMetadata)
MetadataRow(id, secret) ==
    [id |-> id, name |-> secret.Name, description |-> secret.Description,
     organization_id |-> secret.OrganizationID, project_id |-> secret.ProjectID,
     environment |-> secret.Environment, created_by |-> secret.CreatedBy,
     version |-> secret.Version]

\* SecretsRepository.CreateSecretMetadata: INSERT INTO secret_metadata
CreateSecretMetadata(w) ==
    /\ pc[w] = "CreateSecretMetadata"
    /\ \E ok \in Outcomes :
         /\ Fail(ok)
         /\ IF ok
              THEN /\ secret_metadata' =
                        secret_metadata \cup {MetadataRow(nextId, loc[w].secret)}
                   /\ nextId' = nextId + 1
                   /\ created' = [created EXCEPT ![KeyOf(loc[w].secret)] = NoCreated]
                   /\ Goto(w, "incrementSecretsCount", "sql.insert_metadata", loc[w])
              ELSE /\ UNCHANGED <<secret_metadata, nextId, created>>
                   /\ Return(w, "error", "sql", "sql.insert_metadata",
                             vault, secret_metadata, usage_statistics)
    /\ UNCHANGED <<vault, usage_statistics, subscriptions, started,
                   billingVars, authVars, orgVars>>

\* SecretsRepository.incrementSecretsCount: the UPDATE and RowsAffected
incrementSecretsCount(w) ==
    /\ pc[w] = "incrementSecretsCount"
    /\ \E ok \in Outcomes :
         LET orgID == loc[w].secret.OrganizationID
             usage2 == IncrementRows(usage_statistics, orgID)
         IN  /\ Fail(ok)
             /\ IF ~ok
                  THEN /\ UNCHANGED usage_statistics
                       /\ Return(w, "error", "sql", "sql.increment",
                                 vault, secret_metadata, usage_statistics)
                  ELSE /\ usage_statistics' = usage2
                       /\ IF UsageRows(usage_statistics, orgID) = {}
                            THEN Goto(w, "insertUsage", "sql.increment", loc[w])
                            ELSE Return(w, "ok", "", "sql.increment",
                                        vault, secret_metadata, usage2)
    /\ UNCHANGED <<vault, secret_metadata, subscriptions, nextId, created, started,
                   billingVars, authVars, orgVars>>

\* SecretsRepository.incrementSecretsCount: no row was updated, INSERT INTO
\* usage_statistics (..., secret_count, api_calls) VALUES (..., 1, 0)
incrementSecretsCount_Insert(w) ==
    /\ pc[w] = "insertUsage"
    /\ \E ok \in Outcomes :
         LET usage2 == IF ok
                         THEN usage_statistics \cup
                              {[id |-> nextId,
                                organization_id |-> loc[w].secret.OrganizationID,
                                secret_count |-> 1, api_calls |-> 0]}
                         ELSE usage_statistics
         IN  /\ Fail(ok)
             /\ usage_statistics' = usage2
             /\ nextId' = IF ok THEN nextId + 1 ELSE nextId
             /\ Return(w, IF ok THEN "ok" ELSE "error", IF ok THEN "" ELSE "sql",
                       "sql.insert_usage", vault, secret_metadata, usage2)
    /\ UNCHANGED <<vault, secret_metadata, subscriptions, created, started,
                   billingVars, authVars, orgVars>>

\* SecretsRepository.DeleteSecretMetadataByPath: the lookup
\* GetSecretMetadataByPath and the nil check ("Rien a supprimer")
DeleteSecretMetadataByPath(w) ==
    /\ pc[w] = "idle"
    /\ started < MaxRequests
    /\ started' = started + 1
    /\ \E secret \in RequestPaths, ok \in Outcomes :
         LET pre == Snapshot(vault, secret_metadata, usage_statistics, secret)
             begun == [NoLocals EXCEPT !.op = "DeleteSecretMetadataByPath",
                         !.secret = secret, !.pre = pre]
             found == RowsOfSecret(secret_metadata, secret)
         IN  /\ Fail(ok)
             /\ IF ok /\ found # {}
                  THEN \E row \in found :
                         Goto(w, "DeleteSecretMetadata", "sql.select_metadata",
                              [begun EXCEPT !.id = row.id])
                  ELSE /\ last' =
                             Result("DeleteSecretMetadataByPath", secret,
                                    IF ok THEN "ok" ELSE "error",
                                    IF ok THEN "" ELSE "sql", ZeroSecret,
                                    <<"sql.select_metadata">>, pre, pre, TRUE, FALSE,
                                    NoCreated, Alone(w))
                       /\ UNCHANGED <<pc, loc>>
    /\ UNCHANGED <<stores, nextId, created,
                   billingVars, authVars, orgVars>>

\* SecretsRepository.DeleteSecretMetadata: DELETE FROM secret_metadata WHERE id = ?
DeleteSecretMetadata(w) ==
    /\ pc[w] = "DeleteSecretMetadata"
    /\ \E ok \in Outcomes :
         /\ Fail(ok)
         /\ IF ok
              THEN /\ secret_metadata' = {r \in secret_metadata : r.id # loc[w].id}
                   /\ created' = [created EXCEPT ![KeyOf(loc[w].secret)] = NoCreated]
                   /\ Goto(w, "decrementSecretsCount", "sql.delete_metadata", loc[w])
              ELSE /\ UNCHANGED <<secret_metadata, created>>
                   /\ Return(w, "error", "sql", "sql.delete_metadata",
                             vault, secret_metadata, usage_statistics)
    /\ UNCHANGED <<vault, usage_statistics, subscriptions, nextId, started,
                   billingVars, authVars, orgVars>>

\* SecretsRepository.DeleteSecretMetadata called with an id of the caller's
\* choosing (0: an id no row has): the same DELETE, then the decrement
DeleteSecretMetadata_ByID(w) ==
    /\ pc[w] = "idle"
    /\ started < MaxRequests
    /\ started' = started + 1
    /\ \E secret \in RequestPaths, ok \in Outcomes :
        \E id \in {0} \cup {r.id : r \in RowsOfSecret(secret_metadata, secret)} :
         LET pre == Snapshot(vault, secret_metadata, usage_statistics, secret)
             begun == [NoLocals EXCEPT !.op = "DeleteSecretMetadata",
                         !.secret = secret, !.pre = pre, !.id = id]
         IN  /\ Fail(ok)
             /\ IF ok
                  THEN /\ secret_metadata' = {r \in secret_metadata : r.id # id}
                       /\ created' = [created EXCEPT ![KeyOf(secret)] =
                                        IF id = 0 THEN @ ELSE NoCreated]
                       /\ Goto(w, "decrementSecretsCount", "sql.delete_metadata", begun)
                  ELSE /\ UNCHANGED <<secret_metadata, created>>
                       /\ last' =
                             Result("DeleteSecretMetadata", secret, "error", "sql",
                                    ZeroSecret, <<"sql.delete_metadata">>, pre, pre,
                                    TRUE, FALSE, NoCreated, Alone(w))
                       /\ UNCHANGED <<pc, loc>>
    /\ UNCHANGED <<vault, usage_statistics, subscriptions, nextId,
                   billingVars, authVars, orgVars>>

\* SecretsRepository.decrementSecretsCount
decrementSecretsCount(w) ==
    /\ pc[w] = "decrementSecretsCount"
    /\ \E ok \in Outcomes :
         LET usage2 == IF ok
                         THEN DecrementRows(usage_statistics,
                                            loc[w].secret.OrganizationID)
                         ELSE usage_statistics
         IN  /\ Fail(ok)
             /\ usage_statistics' = usage2
             /\ Return(w, IF ok THEN "ok" ELSE "error", IF ok THEN "" ELSE "sql",
                       "sql.decrement", vault, secret_metadata, usage2)
    /\ UNCHANGED <<vault, secret_metadata, subscriptions, nextId, created, started,
                   billingVars, authVars, orgVars>>

(* ------------------------------ behaviour ----------------------------- *)
Next ==
    \E w \in Workers :
        \/ CreateSecret(w)
        \/ GetSecret(w)
        \/ DeleteSecret(w)
        \/ CanCreateSecret_GetSecretsCount(w)
        \/ CanCreateSecret_GetSecretsLimit(w)
        \/ StoreSecret(w)
        \/ CreateSecretMetadata(w)
        \/ incrementSecretsCount(w)
        \/ incrementSecretsCount_Insert(w)
        \/ DeleteSecretMetadataByPath(w)
        \/ DeleteSecretMetadata(w)
        \/ DeleteSecretMetadata_ByID(w)
        \/ decrementSecretsCount(w)

Spec == Init /\ [][Next]_vars

(* ------------- deletions in an organization with secrets -------------- *)
\* two secrets of one organization, as a caller creates them
SecretA == Secret(<<"a">>, "v1", "d1", <<"o">>, <<"p">>, <<"e">>, "u1", 0)
SecretB == Secret(<<"b">>, "v1", "d1", <<"o">>, <<"p">>, <<"e">>, "u1", 0)

\* the stores after the caller flow CanCreateSecret, StoreSecret,
\* CreateSecretMetadata, incrementSecretsCount has run for SecretA and then for
\* SecretB in an organization without subscription: two KV entries, two
\* metadata rows, one usage row with secret_count = 2
Stocked ==
    /\ vault = [k \in VaultKeys |->
                  IF k = KeyOf(SecretA) THEN SecretData(SecretA)
                  ELSE SecretData(SecretB)]
    /\ secret_metadata = {MetadataRow(1, SecretA), MetadataRow(3, SecretB)}
    /\ usage_statistics = {[id |-> 2, organization_id |-> <<"o">>,
                            secret_count |-> 2, api_calls |-> 0]}
    /\ subscriptions = {}
    /\ nextId = 4

DeleteInit ==
    /\ Stocked
    /\ pc = [w \in Workers |-> "idle"]
    /\ loc = [w \in Workers |-> NoLocals]
    /\ last = NoResult
    /\ created = [k \in VaultKeys |-> NoCreated]
    /\ started = 0
    /\ failures = 0
    /\ now = 0
    /\ completed = NoCalls
    /\ reference = 0
    /\ authService = "Service"
    /\ users = {}
    /\ issued = {}
    /\ refreshed = {}
    /\ auth = NoAuthResult
    /\ organizations = {}
    /\ user_organizations = {}

\* concurrent callers of DeleteSecretMetadataByPath
DeleteNext ==
    \E w \in Workers :
        \/ DeleteSecretMetadataByPath(w)
        \/ DeleteSecretMetadata(w)
        \/ decrementSecretsCount(w)

DeleteSpec == DeleteInit /\ [][DeleteNext]_vars

(* ------------- secrets whose fields hold the separator ---------------- *)
\* Environment and Name as a JSON body or a Go caller may give them: the
\* handler decodes the body into models.Secret and passes it on unchecked
BodyEnvs == {<<"e">>, <<"e", "/", "a">>}
BodyNames == {<<"a">>, <<"b">>, <<"a", "/", "b">>}

BodyScopes == Orgs \X Projects \X BodyEnvs \X BodyNames

ScopePath(s) == buildSecretPath(s[1], s[2], s[3], s[4])

BodyKeys == {ScopePath(s) : s \in BodyScopes}

\* what a call of vault.Service was given and what it returned; expect is what
\* the last StoreSecret of the same (organization, project, environment, name)
\* wrote, if none of its DeleteSecret came after
CallResult(op, scope, err, secret, expect) ==
    [op |-> op, scope |-> scope, err |-> err, secret |-> secret, expect |-> expect]

\* an empty KV mount; created is kept per (organization, project, environment,
\* name) here
PathInit ==
    /\ vault = [k \in BodyKeys |-> NoData]
    /\ created = [s \in BodyScopes |-> NoCreated]
    /\ secret_metadata = {}
    /\ usage_statistics = {}
    /\ subscriptions = {}
    /\ nextId = 1
    /\ pc = [w \in Workers |-> "idle"]
    /\ loc = [w \in Workers |-> NoLocals]
    /\ last = NoResult
    /\ started = 0
    /\ failures = 0
    /\ now = 0
    /\ completed = NoCalls
    /\ reference = 0
    /\ authService = "Service"
    /\ users = {}
    /\ issued = {}
    /\ refreshed = {}
    /\ auth = NoAuthResult
    /\ organizations = {}
    /\ user_organizations = {}

\* Service.StoreSecret(ctx, secret) -> Client.WriteSecret
StoreSecretCall ==
    /\ started < MaxRequests
    /\ started' = started + 1
    /\ \E s \in BodyScopes, v \in Values, d \in Descriptions, u \in Users,
          ok \in Outcomes :
         LET secret == Secret(s[4], v, d, s[1], s[2], s[3], u, 0)
         IN  /\ Fail(ok)
             /\ vault' = IF ok THEN WriteSecret(vault, KeyOf(secret), SecretData(secret))
                         ELSE vault
             /\ created' = IF ok
                             THEN [created EXCEPT ![s] =
                                     [set |-> TRUE, value |-> v, description |-> d]]
                             ELSE created
             /\ last' = CallResult("StoreSecret", s,
                                   IF ok THEN "" ELSE "impossible d'ecrire le secret",
                                   ZeroSecret, NoCreated)
    /\ UNCHANGED <<secret_metadata, usage_statistics, subscriptions, nextId, pc, loc,
                   billingVars, authVars, orgVars>>

\* Service.GetSecret(ctx, orgID, projectID, env, name) -> Client.GetSecret
GetSecretCall ==
    /\ started < MaxRequests
    /\ started' = started + 1
    /\ \E s \in BodyScopes, ok \in Outcomes :
         LET data == vault[ScopePath(s)]
             err == IF ~ok THEN "impossible de recuperer le secret"
                    ELSE IF ~data.present THEN "secret non trouve"
                    ELSE ""
         IN  /\ Fail(ok)
             /\ last' = CallResult("GetSecret", s, err,
                                   IF err = ""
                                     THEN ServiceGetSecret(data, s[1], s[2], s[3], s[4])
                                     ELSE ZeroSecret,
                                   created[s])
    /\ UNCHANGED <<stores, nextId, pc, loc, created, billingVars, authVars, orgVars>>

\* Service.DeleteSecret(ctx, orgID, projectID, env, name) -> Client.DeleteSecret
DeleteSecretCall ==
    /\ started < MaxRequests
    /\ started' = started + 1
    /\ \E s \in BodyScopes, ok \in Outcomes :
         /\ Fail(ok)
         /\ vault' = IF ok THEN ClientDeleteSecret(vault, ScopePath(s)) ELSE vault
         /\ created' = IF ok THEN [created EXCEPT ![s] = NoCreated] ELSE created
         /\ last' = CallResult("DeleteSecret", s,
                               IF ok THEN "" ELSE "impossible de supprimer le secret",
                               ZeroSecret, NoCreated)
    /\ UNCHANGED <<secret_metadata, usage_statistics, subscriptions, nextId, pc, loc,
                   billingVars, authVars, orgVars>>

PathNext == StoreSecretCall \/ GetSecretCall \/ DeleteSecretCall

PathSpec == PathInit /\ [][PathNext]_vars

(* ---------------------- wired listing of secrets ---------------------- *)
\* the order in which the KV mount lists keys
KeyOrder == << <<"a">>, <<"b">> >>

\* fmt.Sprintf("%s/%s/%s", orgID, projectID, env)
buildScopePath(orgID, projectID, env) ==
    orgID \o <<"/">> \o projectID \o <<"/">> \o env

\* the key is the child `name` of the listed path
ChildOf(key, path, name) == key = path \o <<"/">> \o name

\* Client.ListSecrets: Logical().List("secret/metadata/" + path), the names of
\* the entries directly under the path, in the mount's order
ClientListSecrets(v, path) ==
    SelectSeq(KeyOrder,
              LAMBDA name : \E key \in VaultKeys : ChildOf(key, path, name) /\ v[key].present)

\* what ListProjectSecrets holds between two store calls: the keys still to
\* resolve, the secrets appended so far, and for each key resolved so far the
\* error GetSecret returned for it
ListLocals(scope, keys, rest, secrets, attempts, done) ==
    [op |-> "ListSecrets", scope |-> scope, keys |-> keys, rest |-> rest,
     secrets |-> secrets, attempts |-> attempts, done |-> done]

\* r.Context() as the next store call finds it: a context that is done
\* (deadline elapsed, client gone) stays done, a live one may have become done
CtxDone(done) == IF done # <<>> /\ done[Len(done)] THEN {TRUE} ELSE BOOLEAN

\* the skips ListProjectSecrets has counted or logged when it returns: the
\* failing branch of the loop is a bare `continue`, the package imports no
\* logger and keeps no counter
RecordedSkips(attempts) == 0

\* what SecretsHandler.ListSecrets answered
\* done: for each store call the request issued, the enumeration first,
\* whether the request's context was done when the call was issued
ListResult(scope, status, err, keys, secrets, attempts, done) ==
    [op |-> "ListSecrets", scope |-> scope, status |-> status, err |-> err,
     keys |-> keys, secrets |-> secrets, attempts |-> attempts,
     skips |-> RecordedSkips(attempts), done |-> done]

\* a loop body that gives up on the first key that does not resolve
AfterKeyAborting(secrets, secret, err) ==
    [secrets |-> IF err = "" THEN Append(secrets, secret) ELSE secrets,
     abort |-> err # ""]

\* the body of the loop of ListProjectSecrets: if err != nil { continue },
\* secrets = append(secrets, secret)
AfterKey(secrets, secret, err) ==
    [secrets |-> IF err = "" THEN Append(secrets, secret) ELSE secrets,
     abort |-> FALSE]

\* SecretsHandler.ListSecrets -> Service.ListProjectSecrets -> Client.ListSecrets
ListSecrets(w) ==
    /\ pc[w] = "idle"
    /\ started < MaxRequests
    /\ started' = started + 1
    /\ \E o \in Orgs, p \in Projects, e \in Envs, ok \in Outcomes,
          ctx \in CtxDone(<<>>) :
         \* c.client.Logical().List(fullPath): the call is not given ctx
         LET scope == <<o, p, e>>
             keys == ClientListSecrets(vault, buildScopePath(o, p, e))
         IN  /\ Fail(ok)
             /\ IF ok /\ keys # <<>>
                  THEN /\ pc' = [pc EXCEPT ![w] = "ListProjectSecrets.GetSecret"]
                       /\ loc' = [loc EXCEPT ![w] =
                                    ListLocals(scope, keys, keys, <<>>, <<>>, <<ctx>>)]
                       /\ last' = NoResult
                  ELSE /\ last' = ListResult(scope,
                                     IF ok THEN "OK" ELSE "InternalServerError",
                                     IF ok THEN "" ELSE "impossible de lister les secrets",
                                     keys, <<>>, <<>>, <<ctx>>)
                       /\ UNCHANGED <<pc, loc>>
    /\ UNCHANGED <<stores, nextId, created, billingVars, authVars, orgVars>>

\* ListProjectSecrets: s.GetSecret for the next key, and the return after
\* the last one
ListProjectSecrets_GetSecret(w) ==
    /\ pc[w] = "ListProjectSecrets.GetSecret"
    /\ \E ok \in Outcomes, ctx \in CtxDone(loc[w].done) :
         \* KVv2("secret").Get(ctx, path) fails when ctx is done
         LET l == loc[w]
             name == Head(l.rest)
             data == vault[buildSecretPath(l.scope[1], l.scope[2], l.scope[3], name)]
             done == Append(l.done, ctx)
             err == IF ~ok \/ ctx THEN "impossible de recuperer le secret"
                    ELSE IF ~data.present THEN "secret non trouve"
                    ELSE ""
             secret == ServiceGetSecret(data, l.scope[1], l.scope[2], l.scope[3], name)
             after == AfterKey(l.secrets, secret, err)
             attempts == Append(l.attempts, [key |-> name, err |-> err])
         IN  /\ Fail(ok)
             /\ IF after.abort \/ Tail(l.rest) = <<>>
                  THEN /\ last' = ListResult(l.scope,
                                     IF after.abort THEN "InternalServerError" ELSE "OK",
                                     IF after.abort THEN err ELSE "",
                                     l.keys, IF after.abort THEN <<>> ELSE after.secrets,
                                     attempts, done)
                       /\ pc' = [pc EXCEPT ![w] = "idle"]
                       /\ loc' = [loc EXCEPT ![w] = NoLocals]
                  ELSE /\ last' = NoResult
                       /\ loc' = [loc EXCEPT ![w] =
                                    ListLocals(l.scope, l.keys, Tail(l.rest),
                                               after.secrets, attempts, done)]
                       /\ UNCHANGED pc
    /\ UNCHANGED <<stores, nextId, created, started, billingVars, authVars, orgVars>>

\* the secret routes, as wired
RoutesNext ==
    \E w \in Workers :
        \/ CreateSecret(w)
        \/ GetSecret(w)
        \/ DeleteSecret(w)
        \/ ListSecrets(w)
        \/ ListProjectSecrets_GetSecret(w)

RoutesSpec == Init /\ [][RoutesNext]_vars

(* ------------------------- the Vault client --------------------------- *)
\* Config.Address: empty, the URL of a server, and a string url.Parse rejects
Addresses == {"", "http://127.0.0.1:8200", "://"}

\* Config.Token and Config.Namespace
ConfigTokens == {"", "test-token"}
Namespaces == {"", "test-namespace"}

\* VAULT_TOKEN in the environment of the process
EnvTokens == {"", "env-token"}

\* a nil *Client
NoClient == [nil |-> TRUE, address |-> "", token |-> "", namespace |-> ""]

\* url.Parse as api.NewClient applies it to the configured address: the empty
\* string parses to the empty URL, a string without scheme before "://" does not
urlParse(address) == IF address = "://" THEN "missing protocol scheme" ELSE ""

\* vault.NewClient(cfg) with cfg.Address set: the address is parsed, the token
\* is taken from VAULT_TOKEN
apiNewClient(address, envToken) ==
    IF urlParse(address) # ""
      THEN [client |-> NoClient, err |-> urlParse(address)]
      ELSE [client |-> [nil |-> FALSE, address |-> address, token |-> envToken,
                        namespace |-> ""],
            err |-> ""]

\* vault.Config
Config(address, token, namespace) ==
    [Address |-> address, Token |-> token, Namespace |-> namespace]

\* NewClient(config): <<client, err>>
NewClientResult(config, envToken) ==
    LET made == apiNewClient(config.Address, envToken)
    IN  IF made.err # ""
          THEN <<NoClient, "impossible de creer le client Vault">>
          ELSE <<[made.client EXCEPT
                    !.token = config.Token,
                    !.namespace = IF config.Namespace # "" THEN config.Namespace ELSE @],
                 "">>

\* what a call of NewClient was given and what it returned
ClientResult(config, envToken, client, err) ==
    [op |-> "NewClient", config |-> config, envToken |-> envToken,
     client |-> client, err |-> err]

NewClient ==
    /\ started < MaxRequests
    /\ started' = started + 1
    /\ \E address \in Addresses, token \in ConfigTokens, namespace \in Namespaces,
          envToken \in EnvTokens :
         LET config == Config(address, token, namespace)
             result == NewClientResult(config, envToken)
         IN  last' = ClientResult(config, envToken, result[1], result[2])
    /\ UNCHANGED <<stores, nextId, pc, loc, created, failures, billingVars, authVars, orgVars>>

ClientNext == NewClient

ClientSpec == Init /\ [][ClientNext]_vars

(* ------------------ catalog lookups and updates ----------------------- *)
\* metadata.Version as the caller of UpdateSecretMetadata sets it
UpdateVersions == {0, 1}

\* what a catalog call was given (the id or path it looked up, the metadata
\* it was to store), whether its statement reached the database, and what it
\* returned: metadata is {} for a nil *models.SecretMetadata
MetadataResult(op, input, ok, metadata, err, before) ==
    [op |-> op, input |-> input, ok |-> ok, metadata |-> metadata, err |-> err,
     before |-> before]

\* a lookup that passes sql.ErrNoRows on to its caller
ScanMetadataErrNoRows(rows, ok) ==
    IF ~ok THEN {<<{}, "sql">>}
    ELSE IF rows = {} THEN {<<{}, "sql: no rows in result set">>}
    ELSE {<<{r}, "">> : r \in rows}

\* QueryRowContext(...).Scan(...) and the error mapping of GetSecretMetadata
\* and GetSecretMetadataByPath: the (metadata, err) the call can return; of
\* several matching rows QueryRow yields the first the database delivers
ScanMetadata(rows, ok) ==
    IF ~ok THEN {<<{}, "sql">>}
    ELSE IF rows = {} THEN {<<{}, "">>}
    ELSE {<<{r}, "">> : r \in rows}

\* ids a caller can ask for: 0, which no row has, and the ids of the rows
KnownIDs == {0} \cup {r.id : r \in secret_metadata}

\* SecretsRepository.GetSecretMetadata(ctx, id)
GetSecretMetadata(w) ==
    /\ pc[w] = "idle"
    /\ \E id \in KnownIDs, ok \in Outcomes :
         /\ Fail(ok)
         /\ \E r \in ScanMetadata({m \in secret_metadata : m.id = id}, ok) :
              last' = MetadataResult("GetSecretMetadata", [id |-> id], ok, r[1], r[2],
                                     {})
    /\ UNCHANGED <<stores, nextId, pc, loc, created, started, billingVars, authVars, orgVars>>

\* SecretsRepository.GetSecretMetadataByPath(ctx, orgID, projectID, env, name)
GetSecretMetadataByPath(w) ==
    /\ pc[w] = "idle"
    /\ \E secret \in RequestPaths, ok \in Outcomes :
         /\ Fail(ok)
         /\ \E r \in ScanMetadata(RowsOfSecret(secret_metadata, secret), ok) :
              last' = MetadataResult("GetSecretMetadataByPath", secret, ok, r[1], r[2],
                                     {})
    /\ UNCHANGED <<stores, nextId, pc, loc, created, started, billingVars, authVars, orgVars>>

\* UPDATE secret_metadata SET name = ?, description = ?, updated_at = NOW(),
\* version = ? WHERE id = ?
UpdateRows(rows, id, name, description, version) ==
    {IF r.id = id
        THEN [r EXCEPT !.name = name, !.description = description, !.version = version]
        ELSE r : r \in rows}

\* SecretsRepository.UpdateSecretMetadata(ctx, metadata): the UPDATE, and the
\* error of ExecContext returned as it is
UpdateSecretMetadata(w) ==
    /\ pc[w] = "idle"
    /\ started < MaxRequests
    /\ started' = started + 1
    /\ \E id \in KnownIDs, name \in Names, description \in Descriptions,
          version \in UpdateVersions, ok \in Outcomes :
         /\ Fail(ok)
         /\ secret_metadata' =
                IF ok THEN UpdateRows(secret_metadata, id, name, description, version)
                ELSE secret_metadata
         /\ last' = MetadataResult("UpdateSecretMetadata",
                        [id |-> id, name |-> name, description |-> description,
                         version |-> version],
                        ok, {}, IF ok THEN "" ELSE "sql",
                        {r \in secret_metadata : r.id = id})
    /\ UNCHANGED <<vault, usage_statistics, subscriptions, nextId, pc, loc, created,
                   billingVars, authVars, orgVars>>

\* one caller of the catalog, a call beginning when the call before it has
\* returned: creations through CanCreateSecret, lookups by id and by path,
\* and updates
CatalogNext ==
    \E w \in Workers :
        \/ AllIdle /\ CanCreateSecret_GetSecretsCount(w)
        \/ CanCreateSecret_GetSecretsLimit(w)
        \/ StoreSecret(w)
        \/ CreateSecretMetadata(w)
        \/ incrementSecretsCount(w)
        \/ incrementSecretsCount_Insert(w)
        \/ AllIdle /\ GetSecretMetadata(w)
        \/ AllIdle /\ GetSecretMetadataByPath(w)
        \/ AllIdle /\ UpdateSecretMetadata(w)

CatalogSpec == Init /\ [][CatalogNext]_vars

(* ------------- subscriptions and usage counters (billing) ------------- *)
MaxTime == 3

\* table plans, which no statement of the program writes
Plans == {[id |-> "pro", secrets_limit |-> 2]}

PlanIDs == {"pro", "gone"}

\* durationMonths of UpgradeToPlan, and subscription.EndDate of CreateSubscription
Durations == {1}

EndDates == {1, 2}

\* SecretsRepository.GetSecretsLimit: the same SELECT as GetSecretsLimit, and
\* 0 when no row matches
SecretsRepository_GetSecretsLimit(subs, orgID) ==
    LET active == ActiveSubscriptions(subs, orgID)
    IN  IF active = {} THEN {0}
        ELSE {s.secrets_limit : s \in
                {t \in active : \A u \in active : u.end_date <= t.end_date}}

\* SubscriptionService.GetActiveSubscription: status = 'active' AND end_date >
\* NOW() ORDER BY end_date DESC LIMIT 1; the rows the query can return
GetActiveSubscription(subs, orgID, t) ==
    LET live == {s \in ActiveSubscriptions(subs, orgID) : s.end_date > t}
    IN  {s \in live : \A u \in live : u.end_date <= s.end_date}

\* UPDATE subscriptions SET status = 'cancelled' WHERE id = ?
CancelRows(subs, id) ==
    {IF s.id = id THEN [s EXCEPT !.status = "cancelled"] ELSE s : s \in subs}

\* an api_calls increment that counts a secret as well
IncrementAPICallRowsBoth(usage, orgID) ==
    {IF u.organization_id = orgID
        THEN [u EXCEPT !.api_calls = @ + 1, !.secret_count = @ + 1] ELSE u : u \in usage}

\* UPDATE usage_statistics SET api_calls = api_calls + 1 WHERE organization_id = ?
IncrementAPICallRows(usage, orgID) ==
    {IF u.organization_id = orgID
        THEN [u EXCEPT !.api_calls = @ + 1] ELSE u : u \in usage}

BillingLocals(op, orgID, subscription, existing) ==
    [op |-> op, orgID |-> orgID, subscription |-> subscription, existing |-> existing]

NoSubscription ==
    [id |-> 0, organization_id |-> <<>>, status |-> "", secrets_limit |-> 0,
     end_date |-> 0]

\* what a billing call returned: op, its organization, the repository that
\* served it and the limit it resolved (GetSecretsLimit only), its error, and
\* the count it read (GetSecretsCount only)
BillingResult(op, orgID, impl, limit, err) ==
    [op |-> op, orgID |-> orgID, impl |-> impl, limit |-> limit, err |-> err,
     count |-> 0]

\* the call returns
Finish(w, result) ==
    /\ last' = result
    /\ pc' = [pc EXCEPT ![w] = "idle"]
    /\ loc' = [loc EXCEPT ![w] = NoLocals]

FinishPlain(w, op, orgID, err) ==
    Finish(w, BillingResult(op, orgID, "", 0, err))

\* the call goes on to its next statement
Proceed(w, label, locals) ==
    /\ pc' = [pc EXCEPT ![w] = label]
    /\ loc' = [loc EXCEPT ![w] = locals]
    /\ last' = NoResult

\* CreateSubscription: existingSub, err := s.GetActiveSubscription(...) and the
\* branch on existingSub != nil
SelectActiveSubscription(w, locals, ok) ==
    LET found == GetActiveSubscription(subscriptions, locals.orgID, now)
    IN  IF ~ok THEN FinishPlain(w, locals.op, locals.orgID, "sql")
        ELSE IF found = {} THEN Proceed(w, "insertSubscription", locals)
        ELSE \E e \in found :
                Proceed(w, "cancelSubscription", [locals EXCEPT !.existing = e.id])

\* SubscriptionService.CreateSubscription called with a subscription of the
\* caller's making
CreateSubscription(w) ==
    /\ pc[w] = "idle"
    /\ started < MaxRequests
    /\ started' = started + 1
    /\ \E o \in Orgs, l \in SubscriptionLimits, e \in EndDates, ok \in Outcomes :
         /\ Fail(ok)
         /\ SelectActiveSubscription(w,
                BillingLocals("CreateSubscription", o,
                    [id |-> 0, organization_id |-> o, status |-> "active",
                     secrets_limit |-> l, end_date |-> e], 0),
                ok)
    /\ UNCHANGED <<vault, secret_metadata, usage_statistics, subscriptions, nextId,
                   created, billingVars, authVars, orgVars>>

\* SubscriptionService.UpgradeToPlan: GetPlan, then the subscription it builds
UpgradeToPlan(w) ==
    /\ pc[w] = "idle"
    /\ started < MaxRequests
    /\ started' = started + 1
    /\ \E o \in Orgs, planID \in PlanIDs, months \in Durations, ok \in Outcomes :
         LET newPlan == {p \in Plans : p.id = planID}
         IN  /\ Fail(ok)
             /\ IF ok /\ newPlan # {}
                  THEN \E p \in newPlan :
                         Proceed(w, "GetActiveSubscription",
                             BillingLocals("UpgradeToPlan", o,
                                 [id |-> 0, organization_id |-> o, status |-> "active",
                                  secrets_limit |-> p.secrets_limit,
                                  end_date |-> now + months], 0))
                  ELSE FinishPlain(w, "UpgradeToPlan", o,
                                   IF ok THEN "sql.ErrNoRows" ELSE "sql")
    /\ UNCHANGED <<vault, secret_metadata, usage_statistics, subscriptions, nextId,
                   created, billingVars, authVars, orgVars>>

\* UpgradeToPlan -> CreateSubscription: the GetActiveSubscription query
CreateSubscription_GetActiveSubscription(w) ==
    /\ pc[w] = "GetActiveSubscription"
    /\ \E ok \in Outcomes :
         /\ Fail(ok)
         /\ SelectActiveSubscription(w, loc[w], ok)
    /\ UNCHANGED <<vault, secret_metadata, usage_statistics, subscriptions, nextId,
                   created, started, billingVars, authVars, orgVars>>

\* SubscriptionService.cancelSubscription(existingSub.ID)
cancelSubscription(w) ==
    /\ pc[w] = "cancelSubscription"
    /\ \E ok \in Outcomes :
         /\ Fail(ok)
         /\ IF ok
              THEN /\ subscriptions' = CancelRows(subscriptions, loc[w].existing)
                   /\ Proceed(w, "insertSubscription", loc[w])
              ELSE /\ UNCHANGED subscriptions
                   /\ FinishPlain(w, loc[w].op, loc[w].orgID, "sql")
    /\ UNCHANGED <<vault, secret_metadata, usage_statistics, nextId, created, started,
                   billingVars, authVars, orgVars>>

\* CreateSubscription: INSERT INTO subscriptions
CreateSubscription_Insert(w) ==
    /\ pc[w] = "insertSubscription"
    /\ \E ok \in Outcomes :
         /\ Fail(ok)
         /\ subscriptions' =
                IF ok THEN subscriptions \cup {[loc[w].subscription EXCEPT !.id = nextId]}
                ELSE subscriptions
         /\ nextId' = IF ok THEN nextId + 1 ELSE nextId
         /\ FinishPlain(w, loc[w].op, loc[w].orgID, IF ok THEN "" ELSE "sql")
    /\ UNCHANGED <<vault, secret_metadata, usage_statistics, created, started,
                   billingVars, authVars, orgVars>>

\* GetSecretsLimit of SecretCountRepository or of SecretsRepository
GetSecretsLimit_Call(w) ==
    /\ pc[w] = "idle"
    /\ started < MaxRequests
    /\ started' = started + 1
    /\ \E o \in Orgs, impl \in {"SecretCountRepository", "SecretsRepository"},
          ok \in Outcomes :
         LET limits == IF impl = "SecretCountRepository"
                         THEN GetSecretsLimit(subscriptions, o)
                         ELSE SecretsRepository_GetSecretsLimit(subscriptions, o)
         IN  /\ Fail(ok)
             /\ \E limit \in limits :
                  last' = BillingResult("GetSecretsLimit", o, impl,
                                        IF ok THEN limit ELSE 0,
                                        IF ok THEN "" ELSE "sql")
    /\ UNCHANGED <<vault, secret_metadata, usage_statistics, subscriptions, nextId,
                   pc, loc, created, billingVars, authVars, orgVars>>

\* a usage-counter call returns nil
Completed(op) ==
    /\ completed' = [completed EXCEPT ![op] = @ + 1]
    /\ reference' = IF op = "IncrementSecretsCount" THEN reference + 1 ELSE reference

\* SecretCountRepository.IncrementSecretsCount: the UPDATE and RowsAffected
IncrementSecretsCount(w) ==
    /\ pc[w] = "idle"
    /\ started < MaxRequests
    /\ started' = started + 1
    /\ \E o \in Orgs, ok \in Outcomes :
         /\ Fail(ok)
         /\ IF ~ok
              THEN /\ UNCHANGED <<usage_statistics, completed, reference>>
                   /\ FinishPlain(w, "IncrementSecretsCount", o, "sql")
              ELSE /\ usage_statistics' = IncrementRows(usage_statistics, o)
                   /\ IF UsageRows(usage_statistics, o) = {}
                        THEN /\ Proceed(w, "IncrementSecretsCount.insert",
                                    BillingLocals("IncrementSecretsCount", o,
                                                  NoSubscription, 0))
                             /\ UNCHANGED <<completed, reference>>
                        ELSE /\ FinishPlain(w, "IncrementSecretsCount", o, "")
                             /\ Completed("IncrementSecretsCount")
    /\ UNCHANGED <<vault, secret_metadata, subscriptions, nextId, created, now, authVars, orgVars>>

\* the row the usage-counter calls insert when their UPDATE matched none
UsageRow(id, orgID, secret_count, api_calls) ==
    [id |-> id, organization_id |-> orgID, secret_count |-> secret_count,
     api_calls |-> api_calls]

\* IncrementSecretsCount: INSERT ... VALUES (?, ?, 1, 0, NOW())
IncrementSecretsCount_Insert(w) ==
    /\ pc[w] = "IncrementSecretsCount.insert"
    /\ \E ok \in Outcomes :
         /\ Fail(ok)
         /\ IF ok
              THEN /\ usage_statistics' =
                        usage_statistics \cup {UsageRow(nextId, loc[w].orgID, 1, 0)}
                   /\ nextId' = nextId + 1
                   /\ Completed("IncrementSecretsCount")
              ELSE UNCHANGED <<usage_statistics, nextId, completed, reference>>
         /\ FinishPlain(w, "IncrementSecretsCount", loc[w].orgID,
                        IF ok THEN "" ELSE "sql")
    /\ UNCHANGED <<vault, secret_metadata, subscriptions, created, started, now, authVars, orgVars>>

\* SecretCountRepository.IncrementAPICallCount: the UPDATE and RowsAffected
IncrementAPICallCount(w) ==
    /\ pc[w] = "idle"
    /\ started < MaxRequests
    /\ started' = started + 1
    /\ \E o \in Orgs, ok \in Outcomes :
         /\ Fail(ok)
         /\ IF ~ok
              THEN /\ UNCHANGED <<usage_statistics, completed, reference>>
                   /\ FinishPlain(w, "IncrementAPICallCount", o, "sql")
              ELSE /\ usage_statistics' = IncrementAPICallRows(usage_statistics, o)
                   /\ IF UsageRows(usage_statistics, o) = {}
                        THEN /\ Proceed(w, "IncrementAPICallCount.insert",
                                    BillingLocals("IncrementAPICallCount", o,
                                                  NoSubscription, 0))
                             /\ UNCHANGED <<completed, reference>>
                        ELSE /\ FinishPlain(w, "IncrementAPICallCount", o, "")
                             /\ Completed("IncrementAPICallCount")
    /\ UNCHANGED <<vault, secret_metadata, subscriptions, nextId, created, now, authVars, orgVars>>

\* IncrementAPICallCount: INSERT ... VALUES (?, ?, 0, 1, NOW())
IncrementAPICallCount_Insert(w) ==
    /\ pc[w] = "IncrementAPICallCount.insert"
    /\ \E ok \in Outcomes :
         /\ Fail(ok)
         /\ IF ok
              THEN /\ usage_statistics' =
                        usage_statistics \cup {UsageRow(nextId, loc[w].orgID, 0, 1)}
                   /\ nextId' = nextId + 1
                   /\ Completed("IncrementAPICallCount")
              ELSE UNCHANGED <<usage_statistics, nextId, completed, reference>>
         /\ FinishPlain(w, "IncrementAPICallCount", loc[w].orgID,
                        IF ok THEN "" ELSE "sql")
    /\ UNCHANGED <<vault, secret_metadata, subscriptions, created, started, now, authVars, orgVars>>

\* time passes
Tick ==
    /\ now < MaxTime
    /\ now' = now + 1
    /\ last' = NoResult
    /\ auth' = NoAuthResult
    /\ UNCHANGED <<vault, secret_metadata, usage_statistics, subscriptions, nextId,
                   pc, loc, created, started, failures, completed, reference,
                   authService, orgVars, users, issued, refreshed>>

BillingNext ==
    \/ \E w \in Workers :
        \/ CreateSubscription(w)
        \/ UpgradeToPlan(w)
        \/ CreateSubscription_GetActiveSubscription(w)
        \/ cancelSubscription(w)
        \/ CreateSubscription_Insert(w)
        \/ GetSecretsLimit_Call(w)
        \/ IncrementSecretsCount(w)
        \/ IncrementSecretsCount_Insert(w)
        \/ IncrementAPICallCount(w)
        \/ IncrementAPICallCount_Insert(w)
    \/ Tick

BillingSpec == Init /\ [][BillingNext]_vars

(* ------------- usage counters called one after another ---------------- *)
\* SecretCountRepository.DecrementSecretsCount
DecrementSecretsCount(w) ==
    /\ pc[w] = "idle"
    /\ started < MaxRequests
    /\ started' = started + 1
    /\ \E o \in Orgs, ok \in Outcomes :
         /\ Fail(ok)
         /\ usage_statistics' = IF ok THEN DecrementRows(usage_statistics, o)
                                 ELSE usage_statistics
         /\ reference' = IF ok THEN Greatest(0, reference - 1) ELSE reference
         /\ last' = BillingResult("DecrementSecretsCount", o, "", 0,
                                   IF ok THEN "" ELSE "sql")
    /\ UNCHANGED <<vault, secret_metadata, subscriptions, nextId, pc, loc, created,
                   now, completed, authVars, orgVars>>

\* SecretCountRepository.GetSecretsCount: the count, 0 on sql.ErrNoRows
GetSecretsCount_Call(w) ==
    /\ pc[w] = "idle"
    /\ \E o \in Orgs, ok \in Outcomes :
         /\ Fail(ok)
         /\ \E c \in GetSecretsCount(usage_statistics, o) :
              last' = [BillingResult("GetSecretsCount", o, "SecretCountRepository", 0,
                                     IF ok THEN "" ELSE "sql")
                         EXCEPT !.count = IF ok THEN c ELSE 0]
    /\ UNCHANGED <<vault, secret_metadata, usage_statistics, subscriptions, nextId,
                   pc, loc, created, started, billingVars, authVars, orgVars>>

\* one caller: a call begins when the call before it has returned
CounterNext ==
    \E w \in Workers :
        \/ AllIdle /\ IncrementSecretsCount(w)
        \/ IncrementSecretsCount_Insert(w)
        \/ AllIdle /\ DecrementSecretsCount(w)
        \/ AllIdle /\ GetSecretsCount_Call(w)
        \/ AllIdle /\ IncrementAPICallCount(w)
        \/ IncrementAPICallCount_Insert(w)

CounterSpec == Init /\ [][CounterNext]_vars

(* -------------------------------- auth -------------------------------- *)
\* s.jwtExpiry and s.refreshTime, in ticks of the clock
jwtExpiry == 1

refreshTime == 2

\* jwt.Parse: the Errors bits of the *jwt.ValidationError it can return, {} for
\* a valid token. A token whose exp is the current second is expired or not
\* depending on the sub-second clock; for a token whose signature does not
\* verify the library reports the signature alone or the signature together
\* with the claims' errors, depending on its version
jwtParse(token, t) ==
    IF ~token.wellformed THEN {{"malformed"}}
    ELSE LET expired == IF token.exp < t THEN {TRUE}
                        ELSE IF token.exp = t THEN {TRUE, FALSE}
                        ELSE {FALSE}
             claims == {IF e THEN {"expired"} ELSE {} : e \in expired}
         IN  IF token.signed THEN claims
             ELSE {{"signature"}} \cup {c \cup {"signature"} : c \in claims}

\* parseToken of ServiceImproved and of the Service with refresh tokens
parseToken(flags) ==
    IF flags = {} THEN NoError
    ELSE IF "expired" \in flags THEN ErrTokenExpired
    ELSE ErrInvalidToken

\* generateToken(userID, tokenType, expiry); Service.generateToken(userID) sets
\* no "type" claim
\* returns (signedToken, expiresAt)
generateToken(userID, tokenType, expiry, t) ==
    LET expiresAt == t + expiry
    IN  <<Token(TRUE, TRUE, userID, tokenType, expiresAt), expiresAt>>

\* a generateTokenPair that gives both tokens the refresh lifetime
generateTokenPairOneLifetime(userID, t) ==
    LET access == generateToken(userID, "access", refreshTime, t)
        refresh == generateToken(userID, "refresh", refreshTime, t)
    IN  TokenResponse(access[1], refresh[1], access[2])

\* generateTokenPair: (accessToken, refreshToken, expiresAt), expiresAt from
\* the first generateToken, as the TokenResponse its callers build
generateTokenPair(userID, t) ==
    LET access == generateToken(userID, "access", jwtExpiry, t)
        refresh == generateToken(userID, "refresh", refreshTime, t)
    IN  TokenResponse(access[1], refresh[1], access[2])

\* VerifyToken of each service: (userID, err)
VerifyTokenResult(service, token, flags) ==
    IF service = "Service"
      THEN IF flags # {} THEN <<"", AuthError("jwt.ValidationError", flags)>>
           ELSE <<token.sub, NoError>>
      ELSE IF parseToken(flags) # NoError THEN <<"", parseToken(flags)>>
           ELSE IF token.type # "access" THEN <<"", ErrInvalidToken>>
           ELSE <<token.sub, NoError>>

\* a RefreshToken that does not look at the expiry of the token it is given
RefreshTokenPastExpiry(service, token, flags, rows, t) ==
    IF parseToken(flags \ {"expired"}) # NoError THEN <<"", ErrInvalidToken, NoTokenResponse>>
    ELSE IF token.type # "refresh" THEN <<"", ErrInvalidToken, NoTokenResponse>>
    ELSE <<token.sub, NoError, generateTokenPair(token.sub, t)>>

\* RefreshToken of each service that has one: (userID, err, *TokenResponse)
RefreshTokenResult(service, token, flags, rows, t) ==
    IF parseToken(flags) # NoError THEN <<"", parseToken(flags), NoTokenResponse>>
    ELSE IF token.type # "refresh" THEN <<"", ErrInvalidToken, NoTokenResponse>>
    ELSE IF service = "ServiceImproved" /\ token.sub \notin rows
      THEN <<"", ErrUserNotFound, NoTokenResponse>>
    ELSE <<token.sub, NoError, generateTokenPair(token.sub, t)>>

\* tokens whose signature does not verify: the claims are the sender's choice
ForgedTokens ==
    {Token(TRUE, FALSE, u, ty, e) :
        u \in UserIDs, ty \in {"access", "refresh"}, e \in {0, MaxTime + 1}}

\* what a client can send as a token
PresentedTokens == issued \cup ForgedTokens \cup {NoToken}

\* RegisterUser: ErrUserExists, or INSERT INTO users (a deleted user's id is
\* not handed out again while tokens name it)
RegisterUser ==
    /\ \E u \in UserIDs :
         IF u \in users
           THEN /\ auth' = AuthResult("RegisterUser", NoToken, u, ErrUserExists, NoTokenResponse)
                /\ UNCHANGED users
           ELSE /\ \A t \in issued : t.sub # u
                /\ users' = users \cup {u}
                /\ auth' = AuthResult("RegisterUser", NoToken, u, NoError, NoTokenResponse)
    /\ UNCHANGED <<catalogVars, billingVars, authService, orgVars, issued, refreshed>>

\* an Authenticate that tells the caller when no user has the email
AuthenticateErrorNamingUser(ok, found, matches) ==
    IF ~ok THEN AuthError("sql", {})
    ELSE IF ~found THEN ErrUserNotFound
    ELSE IF ~matches THEN ErrInvalidCredentials
    ELSE NoError

\* the error Authenticate returns: the query failed, no row has the email
\* (sql.ErrNoRows, mysqlstorage.ErrUserNotFound), or bcrypt rejects the password
AuthenticateError(ok, found, matches) ==
    IF ~ok THEN AuthError("sql", {})
    ELSE IF ~found THEN ErrInvalidCredentials
    ELSE IF ~matches THEN ErrInvalidCredentials
    ELSE NoError

\* AuthHandler.Login: the status and body written for Authenticate's error
Login(err) ==
    IF err = NoError THEN <<200, "token">>
    ELSE IF err = ErrInvalidCredentials THEN <<401, "Identifiants invalides">>
    ELSE <<500, "Erreur d'authentification">>

\* Authenticate: the user row by email, the password comparison, then
\* generateToken (Service) or generateTokenPair
Authenticate ==
    /\ \E u \in UserIDs, password \in BOOLEAN, ok \in BOOLEAN :
         LET single == generateToken(u, "", jwtExpiry, now)
             response == IF authService = "Service"
                           THEN TokenResponse(single[1], NoToken, single[2])
                           ELSE generateTokenPair(u, now)
             err == AuthenticateError(ok, u \in users, password)
             result(userID, r) ==
                 [AuthResult("Authenticate", NoToken, userID, err, r)
                    EXCEPT !.creds = Credentials(u, password)]
         IN  IF err = NoError
               THEN /\ issued' = issued \cup Tokens(response)
                    /\ auth' = result(u, response)
               ELSE /\ UNCHANGED issued
                    /\ auth' = result("", NoTokenResponse)
    /\ UNCHANGED <<catalogVars, billingVars, authService, orgVars, users, refreshed>>

\* UsersRepository.DeleteUser: DELETE FROM users WHERE id = ?
DeleteUser ==
    /\ \E u \in UserIDs :
         /\ users' = users \ {u}
         /\ auth' = AuthResult("DeleteUser", NoToken, u,
                               IF u \in users THEN NoError ELSE ErrUserNotFound,
                               NoTokenResponse)
    /\ UNCHANGED <<catalogVars, billingVars, authService, orgVars, issued, refreshed>>

\* VerifyToken (called by the JWTAuth middleware)
VerifyToken ==
    /\ \E token \in PresentedTokens : \E flags \in jwtParse(token, now) :
         LET r == VerifyTokenResult(authService, token, flags)
         IN  auth' = AuthResult("VerifyToken", token, r[1], r[2], NoTokenResponse)
    /\ UNCHANGED <<catalogVars, billingVars, authService, orgVars, users, issued, refreshed>>

\* RefreshToken (Service of internal/auth/service.go has none)
RefreshToken ==
    /\ authService # "Service"
    /\ \E token \in PresentedTokens : \E flags \in jwtParse(token, now) :
         LET r == RefreshTokenResult(authService, token, flags, users, now)
         IN  /\ auth' = [AuthResult("RefreshToken", token, r[1], r[2], r[3])
                            EXCEPT !.again = token \in refreshed]
             /\ issued' = issued \cup Tokens(r[3])
             /\ refreshed' = IF r[2] = NoError THEN refreshed \cup {token}
                              ELSE refreshed
    /\ UNCHANGED <<catalogVars, billingVars, authService, orgVars, users>>

\* the secret routes of apiRouter
SecretRoutes == {"ListSecrets", "CreateSecret", "GetSecret", "DeleteSecret"}

\* Authorization headers, split at their spaces: none, a lone word, another
\* scheme or two spaces after Bearer with a token the service issued, and
\* Bearer with whatever a client can send
Headers ==
    {<<>>, <<"Bearer">>} \cup
    {<<"Basic", token>> : token \in issued} \cup
    {<<"Bearer", "", token>> : token \in issued} \cup
    {<<"Bearer", token>> : token \in PresentedTokens}

\* the token VerifyToken is given, when the header has two parts
BearerToken(header) == IF Len(header) = 2 THEN header[2] ELSE NoToken

\* a JWTAuth that goes on to the handler after a failed verification
JWTAuthWithoutReturn(service, header, flags, route) ==
    IF header = <<>> THEN Handled(header, 401, "Autorisation requise", "", "")
    ELSE IF Len(header) # 2 \/ header[1] # "Bearer"
      THEN Handled(header, 401, "Format d'autorisation invalide", "", "")
    ELSE LET r == VerifyTokenResult(service, header[2], flags)
         IN  Handled(header, IF r[2] # NoError THEN 401 ELSE 0,
                     IF r[2] # NoError THEN "Token invalide" ELSE "", route, r[1])

\* middleware.JWTAuth in front of a secret route
JWTAuthResult(service, header, flags, route) ==
    IF header = <<>> THEN Handled(header, 401, "Autorisation requise", "", "")
    ELSE IF Len(header) # 2 \/ header[1] # "Bearer"
      THEN Handled(header, 401, "Format d'autorisation invalide", "", "")
    ELSE LET r == VerifyTokenResult(service, header[2], flags)
         IN  IF r[2] # NoError THEN Handled(header, 401, "Token invalide", "", "")
             ELSE Handled(header, 0, "", route, r[1])

\* a request to a secret route passes through JWTAuth(authService); the
\* middleware takes an *auth.Service
JWTAuth ==
    /\ authService \in {"Service", "ServiceWithRefresh"}
    /\ \E header \in Headers : \E flags \in jwtParse(BearerToken(header), now) :
        \E route \in IF JWTAuthResult(authService, header, flags, "").status = 0
                        THEN SecretRoutes ELSE {"GetSecret"} :
         LET h == JWTAuthResult(authService, header, flags, route)
         IN  auth' = [AuthResult("JWTAuth", BearerToken(header), h.userID,
                                 IF h.status = 0 THEN NoError ELSE ErrInvalidToken,
                                 NoTokenResponse)
                        EXCEPT !.http = h]
    /\ UNCHANGED <<catalogVars, billingVars, authService, orgVars, users, issued, refreshed>>

\* any of the auth services; they read no table but users
AuthInit == \E service \in AuthServices : Idle(service) /\ subscriptions = {}

AuthNext ==
    \/ RegisterUser
    \/ Authenticate
    \/ DeleteUser
    \/ VerifyToken
    \/ RefreshToken
    \/ JWTAuth
    \/ Tick

AuthSpec == AuthInit /\ [][AuthNext]_vars

(* ------------------- registrations that run together ------------------ *)
\* creds.Email
Emails == {"e1", "e2"}

\* ErrEmailAlreadyExists of the users repository, and the driver's error for
\* an INSERT that breaks UNIQUE(email) (MySQL 1062, returned as it is)
ErrEmailAlreadyExists == AuthError("ErrEmailAlreadyExists", {})
DuplicateEntry == AuthError("mysql.1062", {})

\* table users holds rows here: id from uuid.New(), email UNIQUE
RegisterInit ==
    \E service \in {"ServiceWithRefresh", "ServiceImproved"} :
        /\ Idle(service)
        /\ subscriptions = {}

Registered(email) == {u \in users : u.email = email}

Registration(w, email, err) ==
    /\ auth' = AuthResult("RegisterUser", NoToken, email, err, NoTokenResponse)
    /\ pc' = [pc EXCEPT ![w] = "idle"]
    /\ loc' = [loc EXCEPT ![w] = NoLocals]

\* RegisterUser: SELECT EXISTS(... WHERE email = ?) / usersRepo.GetUserByEmail
RegisterUser_Exists(w) ==
    /\ pc[w] = "idle"
    /\ started < MaxRequests
    /\ started' = started + 1
    /\ \E email \in Emails :
         IF Registered(email) # {}
           THEN /\ auth' = AuthResult("RegisterUser", NoToken, email, ErrUserExists,
                                      NoTokenResponse)
                /\ UNCHANGED <<pc, loc>>
           ELSE /\ auth' = NoAuthResult
                /\ pc' = [pc EXCEPT ![w] =
                            IF authService = "ServiceImproved"
                              THEN "CreateUser.exists" ELSE "RegisterUser.insert"]
                /\ loc' = [loc EXCEPT ![w] = [op |-> "RegisterUser", email |-> email]]
    /\ UNCHANGED <<stores, nextId, last, created, failures, billingVars,
                   authService, orgVars, users, issued, refreshed>>

\* UsersRepository.CreateUser: SELECT EXISTS(... WHERE email = ?)
CreateUser_Exists(w) ==
    /\ pc[w] = "CreateUser.exists"
    /\ IF Registered(loc[w].email) # {}
         THEN Registration(w, loc[w].email, ErrEmailAlreadyExists)
         ELSE /\ auth' = NoAuthResult
              /\ pc' = [pc EXCEPT ![w] = "RegisterUser.insert"]
              /\ UNCHANGED loc
    /\ UNCHANGED <<stores, nextId, last, created, started, failures, billingVars,
                   authService, orgVars, users, issued, refreshed>>

\* INSERT INTO users (...): refused by UNIQUE(email) when a row has the email
RegisterUser_Insert(w) ==
    /\ pc[w] = "RegisterUser.insert"
    /\ IF Registered(loc[w].email) # {}
         THEN /\ Registration(w, loc[w].email, DuplicateEntry)
              /\ UNCHANGED <<users, nextId>>
         ELSE /\ users' = users \cup {[id |-> nextId, email |-> loc[w].email]}
              /\ nextId' = nextId + 1
              /\ Registration(w, loc[w].email, NoError)
    /\ UNCHANGED <<stores, last, created, started, failures, billingVars,
                   authService, orgVars, issued, refreshed>>

RegisterNext ==
    \E w \in Workers :
        \/ RegisterUser_Exists(w)
        \/ CreateUser_Exists(w)
        \/ RegisterUser_Insert(w)

RegisterSpec == RegisterInit /\ [][RegisterNext]_vars

(* ------------------- organizations and their members ------------------ *)
\* the users of table users that the calls name, and the roles they are given
Members == {"u1", "u2"}
Roles == {"admin", "member"}

Membership(userID, orgID, role) ==
    [user_id |-> userID, organization_id |-> orgID, role |-> role]

\* the rows of user_organizations with the given primary key
MembershipRows(rows, userID, orgID) ==
    {m \in rows : m.user_id = userID /\ m.organization_id = orgID}

OrgIDs == {o.id : o \in organizations}

\* what a repository call holds between two statements
OrgLocals(op, userID, orgID, role) ==
    [op |-> op, userID |-> userID, orgID |-> orgID, role |-> role]

\* the call returns; last names the method and its error
OrgReturn(w, op, err) ==
    /\ last' = [op |-> op, err |-> err]
    /\ pc' = [pc EXCEPT ![w] = "idle"]
    /\ loc' = [loc EXCEPT ![w] = NoLocals]

OrgProceed(w, label, locals) ==
    /\ last' = NoResult
    /\ pc' = [pc EXCEPT ![w] = label]
    /\ loc' = [loc EXCEPT ![w] = locals]

\* CreateOrganization for the one name the callers use: the name check, then
\* one transaction that inserts the organization and its owner as 'admin'.
\* The check and the transaction are one step: what can come between them
\* only adds organizations of the same name
CreateOrganization(w) ==
    /\ pc[w] = "idle"
    /\ started < MaxRequests
    /\ started' = started + 1
    /\ \E owner \in Members, ok \in Outcomes :
         LET done == ok /\ organizations = {}
         IN  /\ Fail(ok)
             /\ organizations' =
                    IF done THEN organizations \cup {[id |-> nextId, owner_id |-> owner]}
                    ELSE organizations
             /\ user_organizations' =
                    IF done
                      THEN user_organizations \cup {Membership(owner, nextId, "admin")}
                      ELSE user_organizations
             /\ nextId' = IF done THEN nextId + 1 ELSE nextId
             /\ last' = [op |-> "CreateOrganization",
                         err |-> IF ~ok THEN "sql"
                                 ELSE IF organizations # {}
                                   THEN "ErrOrganizationNameExists"
                                 ELSE ""]
    /\ UNCHANGED <<stores, pc, loc, created, billingVars, authVars>>

\* OrganizationsRepository.AddUserToOrganization: SELECT EXISTS(...)
AddUserToOrganization(w) ==
    /\ pc[w] = "idle"
    /\ started < MaxRequests
    /\ started' = started + 1
    /\ \E userID \in Members, orgID \in OrgIDs, role \in Roles, ok \in Outcomes :
         /\ Fail(ok)
         /\ IF ~ok THEN /\ last' = [op |-> "AddUserToOrganization", err |-> "sql"]
                        /\ UNCHANGED <<pc, loc>>
            ELSE OrgProceed(w,
                    IF MembershipRows(user_organizations, userID, orgID) # {}
                      THEN "AddUserToOrganization.update"
                      ELSE "AddUserToOrganization.insert",
                    OrgLocals("AddUserToOrganization", userID, orgID, role))
    /\ UNCHANGED <<stores, nextId, created, billingVars, authVars, orgVars>>

\* AddUserToOrganization: UPDATE user_organizations SET role = ?
AddUserToOrganization_Update(w) ==
    /\ pc[w] = "AddUserToOrganization.update"
    /\ user_organizations' =
          {IF m.user_id = loc[w].userID /\ m.organization_id = loc[w].orgID
             THEN [m EXCEPT !.role = loc[w].role] ELSE m : m \in user_organizations}
    /\ OrgReturn(w, "AddUserToOrganization", "")
    /\ UNCHANGED <<stores, nextId, created, started, failures, billingVars, authVars,
                   organizations>>

\* AddUserToOrganization: INSERT INTO user_organizations, refused by the
\* primary key (user_id, organization_id)
AddUserToOrganization_Insert(w) ==
    /\ pc[w] = "AddUserToOrganization.insert"
    /\ LET taken == MembershipRows(user_organizations, loc[w].userID, loc[w].orgID) # {}
       IN  /\ user_organizations' =
                 IF taken THEN user_organizations
                 ELSE user_organizations \cup
                        {Membership(loc[w].userID, loc[w].orgID, loc[w].role)}
           /\ OrgReturn(w, "AddUserToOrganization", IF taken THEN "mysql.1062" ELSE "")
    /\ UNCHANGED <<stores, nextId, created, started, failures, billingVars, authVars,
                   organizations>>

\* DELETE FROM user_organizations WHERE user_id = ? AND organization_id = ?
DeleteMembership(w, op, userID, orgID, notFound) ==
    /\ user_organizations' =
          user_organizations \ MembershipRows(user_organizations, userID, orgID)
    /\ OrgReturn(w, op,
                 IF MembershipRows(user_organizations, userID, orgID) = {}
                   THEN notFound ELSE "")

\* OrganizationsRepository.RemoveUserFromOrganization: the owner check
RemoveUserFromOrganization(w) ==
    /\ pc[w] = "idle"
    /\ started < MaxRequests
    /\ started' = started + 1
    /\ \E userID \in Members, orgID \in OrgIDs :
         IF \E o \in organizations : o.id = orgID /\ o.owner_id = userID
           THEN /\ last' = [op |-> "RemoveUserFromOrganization",
                            err |-> "impossible de retirer le proprietaire"]
                /\ UNCHANGED <<pc, loc>>
           ELSE OrgProceed(w, "RemoveUserFromOrganization.delete",
                           OrgLocals("RemoveUserFromOrganization", userID, orgID, ""))
    /\ UNCHANGED <<stores, nextId, created, failures, billingVars, authVars, orgVars>>

\* OrganizationsRepository.RemoveUserFromOrganization: the DELETE
RemoveUserFromOrganization_Delete(w) ==
    /\ pc[w] = "RemoveUserFromOrganization.delete"
    /\ DeleteMembership(w, "RemoveUserFromOrganization", loc[w].userID, loc[w].orgID,
                        "l'utilisateur n'appartient pas a cette organisation")
    /\ UNCHANGED <<stores, nextId, created, started, failures, billingVars, authVars,
                   organizations>>

\* UsersRepository.RemoveUserFromOrganization: the DELETE alone
UsersRepository_RemoveUserFromOrganization(w) ==
    /\ pc[w] = "idle"
    /\ started < MaxRequests
    /\ started' = started + 1
    /\ \E userID \in Members, orgID \in OrgIDs :
         DeleteMembership(w, "UsersRepository.RemoveUserFromOrganization",
                          userID, orgID, "ErrUserNotFound")
    /\ UNCHANGED <<stores, nextId, created, failures, billingVars, authVars,
                   organizations>>

\* ChangeOrganizationOwner: the membership check
ChangeOrganizationOwner(w) ==
    /\ pc[w] = "idle"
    /\ started < MaxRequests
    /\ started' = started + 1
    /\ \E newOwnerID \in Members, orgID \in OrgIDs :
         IF MembershipRows(user_organizations, newOwnerID, orgID) = {}
           THEN /\ last' = [op |-> "ChangeOrganizationOwner",
                            err |-> "le nouvel utilisateur n'appartient pas"]
                /\ UNCHANGED <<pc, loc>>
           ELSE OrgProceed(w, "ChangeOrganizationOwner.tx",
                           OrgLocals("ChangeOrganizationOwner", newOwnerID, orgID, ""))
    /\ UNCHANGED <<stores, nextId, created, failures, billingVars, authVars, orgVars>>

\* ChangeOrganizationOwner: the transaction, UPDATE organizations SET owner_id
\* and UPDATE user_organizations SET role = 'admin'
ChangeOrganizationOwner_Tx(w) ==
    /\ pc[w] = "ChangeOrganizationOwner.tx"
    /\ organizations' =
          {IF o.id = loc[w].orgID THEN [o EXCEPT !.owner_id = loc[w].userID] ELSE o :
             o \in organizations}
    /\ user_organizations' =
          {IF m.user_id = loc[w].userID /\ m.organization_id = loc[w].orgID
             THEN [m EXCEPT !.role = "admin"] ELSE m : m \in user_organizations}
    /\ OrgReturn(w, "ChangeOrganizationOwner", "")
    /\ UNCHANGED <<stores, nextId, created, started, failures, billingVars, authVars>>

OrgNext ==
    \E w \in Workers :
        \/ CreateOrganization(w)
        \/ AddUserToOrganization(w)
        \/ AddUserToOrganization_Update(w)
        \/ AddUserToOrganization_Insert(w)
        \/ RemoveUserFromOrganization(w)
        \/ RemoveUserFromOrganization_Delete(w)
        \/ UsersRepository_RemoveUserFromOrganization(w)
        \/ ChangeOrganizationOwner(w)
        \/ ChangeOrganizationOwner_Tx(w)

OrgSpec == Init /\ [][OrgNext]_vars

(* ------------------------------ properties ---------------------------- *)
Range(seq) == {seq[i] : i \in DOMAIN seq}

LiveRows(orgID) == {r \in secret_metadata : r.organization_id = orgID}

RowPath(r) == buildSecretPath(r.organization_id, r.project_id, r.environment, r.name)

\* C1: for an organization whose resolved secrets limit is N, no interleaving
\* of creations that each check CanCreateSecret, write the value, insert the
\* metadata row and increment the counter leaves more than N live rows.
C1_LiveRowsWithinLimit ==
    \A o \in Orgs : \A limit \in GetSecretsLimit(subscriptions, o) :
        Cardinality(LiveRows(o)) <= limit

\* C2: once every Create and Delete has completed (failed ones included),
\* every live metadata row has a value in the value store at its path.
C2_EveryRowHasValue ==
    AllIdle => \A r \in secret_metadata : vault[RowPath(r)].present

\* C3: a Create issued when CanCreate is false fails with the quota error and
\* leaves the value store, the catalog and the usage counter unchanged.
C3_CreateRefusedAtQuota ==
    (last.op = "CreateSecret" /\ last.alone /\ ~last.canCreate /\ last.err = "")
        => (last.status = "ErrSubscriptionLimitReached" /\ last.unchanged)

\* C4: a Read that follows a successful Create on the same path, with no
\* other operation on the path in between, returns the created value and
\* description and version 1.
C4_CreateReadRoundTrip ==
    (last.op = "GetSecret" /\ last.alone /\ last.expect.set /\ last.status = "OK")
        => /\ last.secret.Value = last.expect.value
           /\ last.secret.Description = last.expect.description
           /\ last.secret.Version = 1

\* C5: Create reports success only when the value store, the metadata
\* catalog and the usage counter have all been updated.
C5_CreateSuccessUpdatesAll ==
    (last.op = "CreateSecret" /\ last.alone /\ last.status = "Created")
        => /\ last.post.data.present
           /\ last.post.meta
           /\ last.post.counts = {c + 1 : c \in last.pre.counts}

\* C6: a Read of a path that has a metadata row but no value in the value
\* store returns InconsistentState, not the not-found outcome (stated for
\* runs without any transport failure).
C6_ReadReportsInconsistentState ==
    (/\ last.op = "GetSecret" /\ last.alone /\ failures = 0
     /\ last.pre.meta /\ ~last.pre.data.present)
        => (last.status = "InconsistentState" /\ last.status # "NotFound")

\* C7: a Read of a path without a metadata row reports not found and issues
\* no Get to the value store, even when a value is stored at the path (the
\* case stated here: an orphaned value is stored there).
C7_ReadChecksMetadataFirst ==
    (last.op = "GetSecret" /\ last.alone /\ ~last.pre.meta /\ last.pre.data.present)
        => (last.status = "NotFound" /\ "vault.Get" \notin Range(last.calls))

\* C8: a Delete of a path without a metadata row succeeds and changes neither
\* the usage counter, nor the catalog, nor the value store.
C8_DeleteAbsentIsNoOp ==
    (last.op = "DeleteSecret" /\ last.alone /\ ~last.pre.meta /\ last.err = "")
        => (last.status = "NoContent" /\ last.unchanged)

\* C9: a successful Delete of an existing secret removes its value and its
\* metadata row and takes secret_count from c to max(0, c - 1) (stated for
\* runs without any transport failure).
C9_DeleteRemovesAndDecrements ==
    (/\ last.op = "DeleteSecret" /\ last.alone /\ failures = 0
     /\ last.pre.meta /\ last.status = "NoContent")
        => /\ ~last.post.data.present
           /\ ~last.post.meta
           /\ last.post.counts = {Greatest(0, c - 1) : c \in last.pre.counts}

\* C10: a successful Delete of an existing secret deletes the value, then the
\* metadata row, then decrements the usage counter, in that order (stated for
\* runs without any transport failure).
C10_DeleteWriteOrder ==
    (/\ last.op = "DeleteSecret" /\ last.alone /\ failures = 0
     /\ last.pre.meta /\ last.status = "NoContent")
        => last.calls = <<"vault.Delete", "sql.delete_metadata", "sql.decrement">>

\* C11: CanCreateSecret answers true exactly when count < limit (under limit N,
\* true at count N-1 and false at count N), and a creation admitted at count
\* N-1 leaves the usage counter at exactly N (stated for runs without any
\* transport failure).
C11_QuotaBoundary ==
    \A o \in Orgs : \A limit \in GetSecretsLimit(subscriptions, o) :
        (last.op = "CanCreateSecret" /\ failures = 0) =>
            /\ last.pre.counts = {limit} => last.status = "ErrSubscriptionLimitReached"
            /\ last.pre.counts = {limit - 1} =>
                    /\ last.status = "ok"
                    /\ last.post.counts = {limit}

\* C12: GetSecretsLimit returns the secrets_limit of the active subscription
\* with the latest end date, and the free-tier default 5 when the organization
\* has no active subscription, whichever repository serves the call.
C12_GetLimitResolution ==
    (last.op = "GetSecretsLimit" /\ last.err = "") =>
        LET active == ActiveSubscriptions(subscriptions, last.orgID)
        IN  IF active = {} THEN last.limit = DefaultSecretsLimit
            ELSE \E s \in active :
                    /\ \A u \in active : u.end_date <= s.end_date
                    /\ last.limit = s.secrets_limit

\* C13: GetSecretsLimit ignores subscriptions that are past their end_date: an
\* organization whose active subscriptions have all expired gets the free-tier
\* default 5.
C13_GetLimitIgnoresExpired ==
    (/\ last.op = "GetSecretsLimit" /\ last.err = ""
     /\ ActiveSubscriptions(subscriptions, last.orgID) # {}
     /\ \A s \in ActiveSubscriptions(subscriptions, last.orgID) : s.end_date < now)
        => last.limit = DefaultSecretsLimit

\* C14: in every reachable state, whatever the interleaving of CreateSubscription
\* and UpgradeToPlan calls, an organization has at most one subscription with
\* status 'active'.
C14_AtMostOneActive ==
    \A o \in Orgs : Cardinality(ActiveSubscriptions(subscriptions, o)) <= 1

\* C15: once every IncrementSecretsCount and IncrementAPICallCount call has
\* returned, an organization they were made for has exactly one usage row, and
\* the row's secret_count and api_calls are the numbers of calls of each kind
\* that returned nil.
C15_OneUsageRowCountsCalls ==
    (/\ AllIdle
     /\ completed.IncrementSecretsCount + completed.IncrementAPICallCount > 0)
        => \A o \in Orgs :
             /\ Cardinality(UsageRows(usage_statistics, o)) = 1
             /\ \A u \in UsageRows(usage_statistics, o) :
                  /\ u.secret_count = completed.IncrementSecretsCount
                  /\ u.api_calls = completed.IncrementAPICallCount

\* C16: once every catalog operation has completed (creations, deletions by
\* id and by path, deletions that match no row included), an organization's
\* secret_count is the number of its live metadata rows (stated for runs
\* without any transport failure).
C16_CountEqualsLiveRows ==
    (AllIdle /\ failures = 0) =>
        \A o \in Orgs : GetSecretsCount(usage_statistics, o) = {Cardinality(LiveRows(o))}

\* C17: a secret path identifies at most one live metadata row: no two rows
\* have the same organization, project, environment and name (stated for the
\* state a creation leaves when it began on a path whose row was already
\* inserted and counted, in a run without any transport failure).
C17_OneRowPerPath ==
    (/\ last.op = "CanCreateSecret" /\ last.status = "ok" /\ failures = 0
     /\ last.pre.meta /\ last.pre.counts = {1})
        => \A r1, r2 \in secret_metadata : RowPath(r1) = RowPath(r2) => r1 = r2

\* C18: VerifyToken rejects a validly signed, unexpired token of type "refresh"
\* with ErrInvalidToken, RefreshToken rejects a validly signed, unexpired token
\* of type "access" with ErrInvalidToken, and VerifyToken returns a user ID only
\* for tokens of type "access".
C18_TokenTyping ==
    LET valid == auth.token.wellformed /\ auth.token.signed /\ auth.token.exp > now
    IN  /\ (auth.op = "VerifyToken" /\ valid /\ auth.token.type = "refresh")
              => auth.err = ErrInvalidToken
        /\ (auth.op = "RefreshToken" /\ valid /\ auth.token.type = "access")
              => auth.err = ErrInvalidToken
        /\ (auth.op = "VerifyToken" /\ auth.err = NoError)
              => auth.token.type = "access"

\* C19: VerifyToken and RefreshToken reject a correctly signed token whose exp
\* is in the past with ErrTokenExpired, and a token whose signature does not
\* verify or that is malformed with ErrInvalidToken.
C19_ExpiredVersusInvalid ==
    auth.op \in {"VerifyToken", "RefreshToken"} =>
        /\ (auth.token.wellformed /\ auth.token.signed /\ auth.token.exp < now)
              => auth.err = ErrTokenExpired
        /\ (~auth.token.wellformed \/ ~auth.token.signed)
              => auth.err = ErrInvalidToken

\* C20: RefreshToken given a valid refresh token whose subject is no longer in
\* table users fails with ErrUserNotFound and mints no token.
C20_RefreshChecksUser ==
    (/\ auth.op = "RefreshToken"
     /\ auth.token.wellformed /\ auth.token.signed /\ auth.token.exp > now
     /\ auth.token.type = "refresh"
     /\ auth.token.sub \notin users)
        => (auth.err = ErrUserNotFound /\ auth.minted = {})

\* a pair of tokens for one subject: one of type "access", one of type "refresh"
PairFor(tokens, sub) ==
    \E a, r \in tokens :
        /\ tokens = {a, r}
        /\ a.type = "access" /\ r.type = "refresh"
        /\ a.sub = sub /\ r.sub = sub
        /\ a.wellformed /\ a.signed /\ r.wellformed /\ r.signed

\* a token of type "refresh" that the service signed
SignedRefreshToken(token) ==
    token.wellformed /\ token.signed /\ token.type = "refresh"

C22_PairLifetimes ==
    (/\ auth.op \in {"Authenticate", "RefreshToken"}
     /\ auth.err = NoError
     /\ authService # "Service")
        => /\ auth.response.Token =
                 Token(TRUE, TRUE, auth.userID, "access", now + jwtExpiry)
           /\ auth.response.RefreshToken =
                 Token(TRUE, TRUE, auth.userID, "refresh", now + refreshTime)
           /\ auth.response.ExpiresAt = auth.response.Token.exp

\* a pair issued later than the clock's start, by a refresh
C22_Witness ==
    /\ auth.op = "RefreshToken" /\ auth.err = NoError
    /\ now > 0
    /\ auth.response.Token.exp = now + jwtExpiry
    /\ auth.response.RefreshToken.exp = now + refreshTime

\* C23: Authenticate with an email no user has and Authenticate with a
\* registered email and a wrong password return the same thing: no token, no
\* user and ErrInvalidCredentials, which Login answers with 401 "Identifiants
\* invalides" (stated for the calls whose query did not fail).
C23_LoginFailuresAlike ==
    (/\ auth.op = "Authenticate"
     /\ auth.err # AuthError("sql", {})
     /\ (auth.creds.Email \notin users \/ ~auth.creds.Password))
        => /\ auth.err = ErrInvalidCredentials
           /\ auth.userID = ""
           /\ auth.response = NoTokenResponse
           /\ Login(auth.err) = <<401, "Identifiants invalides">>

\* a registered email with a wrong password, refused
C23_Witness ==
    /\ auth.op = "Authenticate"
    /\ auth.creds.Email \in users /\ ~auth.creds.Password
    /\ auth.err = ErrInvalidCredentials

\* C24: JWTAuth passes a request for a secret route (list, create, read,
\* delete) to its handler only when the Authorization header is "Bearer" and a
\* token that is well formed, signed with the service's secret and not past
\* its expiry, and then the "userID" of the request context is the token's
\* subject; a request whose token is missing, malformed, wrongly signed or
\* expired is answered with 401 and reaches no handler.
C24_VerifiedBeforeDispatch ==
    auth.op = "JWTAuth" =>
        LET h == auth.http
            token == BearerToken(h.header)
        IN  /\ h.handler # "" =>
                  /\ h.handler \in SecretRoutes
                  /\ Len(h.header) = 2 /\ h.header[1] = "Bearer"
                  /\ token.wellformed /\ token.signed /\ token.exp >= now
                  /\ token \in issued
                  /\ h.userID = token.sub
                  /\ h.status = 0
            /\ (\/ Len(h.header) < 2
                \/ ~token.wellformed \/ ~token.signed \/ token.exp < now)
                  => (h.handler = "" /\ h.status = 401)

\* a request with an issued, unexpired token passed to a secrets handler
C24_Witness ==
    /\ auth.op = "JWTAuth"
    /\ auth.http.handler = "CreateSecret"
    /\ auth.http.userID \in UserIDs
    /\ BearerToken(auth.http.header) \in issued

\* C25: for usage-counter calls made one after another, starting from no usage
\* row, GetSecretsCount returns the value of a reference counter that starts at
\* 0, adds 1 on each IncrementSecretsCount and becomes max(0, c - 1) on each
\* DecrementSecretsCount; it returns 0 and no error while the organization has
\* no usage row, and the first IncrementSecretsCount leaves one row with
\* secret_count 1.
C25_CounterRefinesReference ==
    /\ (last.op = "GetSecretsCount" /\ last.err = "") =>
            /\ last.count = reference
            /\ UsageRows(usage_statistics, last.orgID) = {} => last.count = 0
    /\ (/\ last.op = "IncrementSecretsCount" /\ last.err = ""
        /\ completed.IncrementSecretsCount = 1) =>
            /\ Cardinality(UsageRows(usage_statistics, last.orgID)) = 1
            /\ \A u \in UsageRows(usage_statistics, last.orgID) : u.secret_count = 1

\* the count is read back as 0 after the reference went 1, 0 and stayed at 0
C25_Witness ==
    /\ last.op = "GetSecretsCount" /\ last.err = ""
    /\ completed.IncrementSecretsCount = 1
    /\ started = 3
    /\ UsageRows(usage_statistics, last.orgID) # {}
    /\ last.count = 0

\* the usage row with the given id
RowWithID(usage, id) == {u \in usage : u.id = id}

\* the step belongs to an IncrementAPICallCount call
APICallStep ==
    \/ last'.op = "IncrementAPICallCount"
    \/ \E w \in Workers : pc'[w] = "IncrementAPICallCount.insert"

\* the step belongs to an IncrementSecretsCount or DecrementSecretsCount call
SecretCountStep ==
    \/ last'.op \in {"IncrementSecretsCount", "DecrementSecretsCount"}
    \/ \E w \in Workers : pc'[w] = "IncrementSecretsCount.insert"

\* C26: for usage-counter calls made one after another, every step of
\* IncrementAPICallCount leaves the secret_count of every usage row as it was,
\* a call that returns nil has added 1 to api_calls or, when the organization
\* had no usage row, has inserted the row (secret_count 0, api_calls 1); every
\* step of IncrementSecretsCount and DecrementSecretsCount leaves api_calls of
\* every row as it was, and a row they insert has api_calls 0.
C26_IndependentCounters ==
    [][/\ APICallStep =>
            /\ \A u \in usage_statistics :
                  \E v \in RowWithID(usage_statistics', u.id) :
                     /\ v.secret_count = u.secret_count
                     /\ (last'.op = "IncrementAPICallCount" /\ last'.err = "")
                            => v.api_calls = u.api_calls + 1
            /\ \A v \in usage_statistics' :
                  RowWithID(usage_statistics, v.id) = {} =>
                     /\ v.secret_count = 0 /\ v.api_calls = 1
                     /\ UsageRows(usage_statistics, v.organization_id) = {}
            /\ (last'.op = "IncrementAPICallCount" /\ last'.err = "")
                  => UsageRows(usage_statistics', last'.orgID) # {}
       /\ SecretCountStep =>
            /\ \A u \in usage_statistics :
                  \E v \in RowWithID(usage_statistics', u.id) :
                     v.api_calls = u.api_calls
            /\ \A v \in usage_statistics' :
                  RowWithID(usage_statistics, v.id) = {} => v.api_calls = 0
      ]_vars

\* IncrementAPICallCount has returned nil on a row whose secret_count an
\* earlier IncrementSecretsCount had set
C26_Witness ==
    /\ last.op = "IncrementAPICallCount" /\ last.err = ""
    /\ \E u \in UsageRows(usage_statistics, last.orgID) :
          u.secret_count = 1 /\ u.api_calls = 1

\* C27: UpdateSecretMetadata increases the stored version of the row it
\* matches, and fails with a not-found error, changing nothing, when no row has
\* the given id.
C27_UpdateBumpsVersion ==
    (last.op = "UpdateSecretMetadata" /\ last.ok) =>
        /\ last.before = {} =>
              /\ last.err # ""
              /\ \A r \in secret_metadata : r.id # last.input.id
        /\ \A r \in last.before :
              /\ last.err = ""
              /\ \E v \in secret_metadata : v.id = r.id /\ v.version > r.version

\* C28: GetSecretMetadata and GetSecretMetadataByPath return (nil, nil) when no
\* row matches, and a non-nil error with no metadata when the lookup itself
\* fails; a metadata they return is a row that matches.
C28_NotFoundIsNotAnError ==
    last.op \in {"GetSecretMetadata", "GetSecretMetadataByPath"} =>
        LET matching ==
                IF last.op = "GetSecretMetadata"
                  THEN {r \in secret_metadata : r.id = last.input.id}
                  ELSE RowsOfSecret(secret_metadata, last.input)
        IN  /\ (last.ok /\ matching = {}) => (last.metadata = {} /\ last.err = "")
            /\ ~last.ok => (last.metadata = {} /\ last.err # "")
            /\ (last.ok /\ matching # {}) =>
                  /\ last.err = ""
                  /\ Cardinality(last.metadata) = 1
                  /\ last.metadata \subseteq matching

\* a lookup by path that failed at the database although the row is there
C28_Witness ==
    /\ last.op = "GetSecretMetadataByPath"
    /\ ~last.ok /\ last.err # ""
    /\ RowsOfSecret(secret_metadata, last.input) # {}

\* the errors vault.Client returns when a call to the KV mount fails
TransportErrors ==
    {"impossible d'ecrire le secret", "impossible de recuperer le secret",
     "impossible de supprimer le secret", "impossible de lister les secrets"}

\* C29: a transport failure of the value store during a create, read, list or
\* delete request is not swallowed: the request does not answer with a success
\* status nor with the not-found status.
C29_TransportFailureSurfaces ==
    /\ (last.op \in {"CreateSecret", "GetSecret", "DeleteSecret"}
            /\ last.err \in TransportErrors)
          => last.status \notin {"OK", "Created", "NoContent", "NotFound"}
    /\ (/\ last.op = "ListSecrets"
        /\ \/ last.err \in TransportErrors
           \/ \E i \in DOMAIN last.attempts : last.attempts[i].err \in TransportErrors)
          => last.status \notin {"OK", "NotFound"}

\* C30: when the keys under the scope have been enumerated, ListSecrets
\* resolves each of them in key order and answers OK with exactly the secrets
\* of the keys whose resolution succeeded, in key order; a key whose resolution
\* fails is skipped. With no key under the scope the answer is the empty list.
C30_ListSkipsFailedKeys ==
    (last.op = "ListSecrets" /\ (last.err = "" \/ last.attempts # <<>>)) =>
        LET resolved == SelectSeq(last.attempts, LAMBDA a : a.err = "")
        IN  /\ last.status = "OK"
            /\ Len(last.attempts) = Len(last.keys)
            /\ \A i \in DOMAIN last.keys : last.attempts[i].key = last.keys[i]
            /\ \A i, j \in DOMAIN last.keys :
                  i < j => \E m, n \in DOMAIN KeyOrder :
                             /\ m < n
                             /\ KeyOrder[m] = last.keys[i] /\ KeyOrder[n] = last.keys[j]
            /\ Len(last.secrets) = Len(resolved)
            /\ \A i \in DOMAIN resolved :
                  /\ last.secrets[i].Name = resolved[i].key
                  /\ <<last.secrets[i].OrganizationID, last.secrets[i].ProjectID,
                        last.secrets[i].Environment>> = last.scope
            /\ last.keys = <<>> =>
                  \A name \in Names :
                     ~vault[buildSecretPath(last.scope[1], last.scope[2],
                                            last.scope[3], name)].present

\* a listing of two keys whose first key failed to resolve and whose second
\* key is the one secret returned
C30_Witness ==
    /\ last.op = "ListSecrets" /\ last.status = "OK"
    /\ Len(last.keys) = 2
    /\ last.attempts[1].err # ""
    /\ Len(last.secrets) = 1
    /\ last.secrets[1].Name = last.keys[2]

\* C31: every entry a listing skips is counted or logged: when ListSecrets
\* has answered, the number of recorded skips equals the number of enumerated
\* keys minus the number of secrets returned.
C31_SkipsRecorded ==
    (last.op = "ListSecrets" /\ last.status = "OK")
        => last.skips = Len(last.keys) - Len(last.secrets)

\* C32: every store call of a listing honours the request's context: a call
\* issued when the context is done fails, and the request issues no store call
\* after it.
C32_DeadlineHonoured ==
    last.op = "ListSecrets" =>
        /\ last.done[1] => last.status # "OK"
        /\ \A i \in DOMAIN last.attempts :
              last.done[i + 1] => last.attempts[i].err # ""
        /\ \A i \in DOMAIN last.done : last.done[i] => i = Len(last.done)

\* C33: NewClient returns an error when the configured address is empty; for
\* a non-empty address it returns a non-nil client whose token is the
\* configured token, also when that token is empty or a namespace is set.
C33_NewClient ==
    last.op = "NewClient" =>
        /\ last.config.Address = "" => last.err # ""
        /\ last.config.Address # "" =>
              /\ last.err = ""
              /\ ~last.client.nil
              /\ last.client.token = last.config.Token

\* C34: deletions of one existing secret that run concurrently decrement the
\* organization's counter once in total: starting from a counter equal to the
\* number of the organization's secrets, the counter never falls below the
\* number of secrets that remain.
C34_OneDecrementPerSecret ==
    \A o \in Orgs :
        \A c \in GetSecretsCount(usage_statistics, o) :
            c >= Cardinality({r \in secret_metadata : r.organization_id = o})

\* C35: the derived path is injective, so an operation on one secret never
\* touches another: two different (organization, project, environment, name)
\* that have been stored have different paths; the value last stored for a
\* secret and not deleted since is the value at its path; and a read returns
\* that value.
C35_PathInjective ==
    /\ \A s, t \in BodyScopes :
          (s # t /\ created[s].set /\ created[t].set) => ScopePath(s) # ScopePath(t)
    /\ \A s \in BodyScopes :
          created[s].set =>
              /\ vault[ScopePath(s)].present
              /\ vault[ScopePath(s)].value = created[s].value
    /\ (last.op = "GetSecret" /\ last.err = "" /\ last.expect.set)
          => last.secret.Value = last.expect.value

\* C36: after any interleaving of registrations at most one user exists per
\* email, and a registration that fails because its email is taken, the loser
\* of two concurrent registrations included, fails with ErrUserExists.
C36_OneUserPerEmail ==
    /\ \A email \in Emails : Cardinality(Registered(email)) <= 1
    /\ (auth.op = "RegisterUser" /\ auth.err # NoError) => auth.err = ErrUserExists

\* C37: when UpgradeToPlan has returned nil, the organization's one active
\* subscription is the row the call inserted, with the plan's secrets_limit,
\* and GetSecretsLimit returns that limit, whatever rows the organization had.
C37_UpgradeTakesEffect ==
    (last.op = "UpgradeToPlan" /\ last.err = "") =>
        \E p \in Plans :
            /\ \A s \in ActiveSubscriptions(subscriptions, last.orgID) :
                  s.id = nextId - 1 /\ s.secrets_limit = p.secrets_limit
            /\ ActiveSubscriptions(subscriptions, last.orgID) # {}
            /\ GetSecretsLimit(subscriptions, last.orgID) = {p.secrets_limit}

\* C38: in every reachable state the owner of each organization is a member
\* of that organization with role 'admin'.
C38_OwnerIsAdmin ==
    \A o \in organizations :
        Membership(o.owner_id, o.id, "admin") \in user_organizations

====
